---- MODULE Spec2Model ----
(***************************************************************************)
(* Model of the collection-and-protection pipeline of gmail-cleaner:       *)
(* DomainCollector (app/collector.py) and DomainCleaner (app/cleaner.py),  *)
(* with the data classes of app/models.py.  Strings whose characters the   *)
(* code inspects (senders, label ids) are sequences of one-character       *)
(* strings, so that the regex search, split, strip, lower and startswith   *)
(* of the source are computed character by character.                      *)
(***************************************************************************)
EXTENDS Integers, Sequences, FiniteSets, TLC

(* ------------------------------ bounds -------------------------------- *)

\* most ids the remote lists in one scan, over all its pages
MaxListed == 3
\* most list requests the remote answers in one scan (length of the page chain)
MaxLists == 2
\* longest thread list handed to cleanup() in the cleaner-only specification
MaxThreads == 3
\* largest message_count of a thread dict handed to cleanup()
MaxMsgCount == 2
\* longest sender string handed to the address functions on their own
MaxSenderLen == 4
\* most messages of a conversation handed to _get_thread_metadata on its own
MaxMessages == 2

(* ------------------------------ strings ------------------------------- *)

UPPER == <<"A","B","C","D","E","F","G","H","I","J","K","L","M",
           "N","O","P","Q","R","S","T","U","V","W","X","Y","Z">>
LOWER == <<"a","b","c","d","e","f","g","h","i","j","k","l","m",
           "n","o","p","q","r","s","t","u","v","w","x","y","z">>

\* str.lower(), one character
LowerChar(c) ==
    IF \E i \in 1..Len(UPPER) : UPPER[i] = c
    THEN LOWER[CHOOSE i \in 1..Len(UPPER) : UPPER[i] = c]
    ELSE c

\* str.lower()
Lower(s) == [i \in 1..Len(s) |-> LowerChar(s[i])]

\* the characters str.strip() removes
Whitespace == {" ", "\t", "\n"}

\* str.strip()
Strip(s) ==
    LET keep == {i \in 1..Len(s) : s[i] \notin Whitespace}
    IN  IF keep = {} THEN <<>>
        ELSE LET lo == CHOOSE i \in keep : \A j \in keep : i <= j
                 hi == CHOOSE i \in keep : \A j \in keep : j <= i
             IN  SubSeq(s, lo, hi)

\* c in s
Contains(s, c) == \E i \in 1..Len(s) : s[i] = c

\* s.startswith(p)
StartsWith(s, p) == Len(s) >= Len(p) /\ SubSeq(s, 1, Len(p)) = p

\* s.split(c)[1], for s that contains c: the text between the first and the
\* second occurrence of c (to the end when there is no second one)
SplitSecond(s, c) ==
    LET at    == {i \in 1..Len(s) : s[i] = c}
        first == CHOOSE i \in at : \A j \in at : i <= j
        rest  == {i \in at : i > first}
        stop  == IF rest = {} THEN Len(s) + 1
                 ELSE CHOOSE i \in rest : \A j \in rest : i <= j
    IN  SubSeq(s, first + 1, stop - 1)

\* positions where re.search(r'<([^>]+)>', s) can match: a '<' whose next '>'
\* lies at least two characters further on
AngleStarts(s) ==
    {i \in 1..Len(s) :
        /\ s[i] = "<"
        /\ \E j \in (i + 2)..Len(s) :
              /\ s[j] = ">"
              /\ \A k \in (i + 1)..(j - 1) : s[k] # ">"}

\* DomainCollector.extract_email_address
extract_email_address(sender) ==
    IF AngleStarts(sender) # {}
    THEN LET i == CHOOSE a \in AngleStarts(sender) :
                      \A b \in AngleStarts(sender) : a <= b
             j == CHOOSE b \in (i + 2)..Len(sender) :
                      /\ sender[b] = ">"
                      /\ \A k \in (i + 1)..(b - 1) : sender[k] # ">"
         IN  Lower(SubSeq(sender, i + 1, j - 1))
    ELSE Lower(Strip(sender))

\* an extract_domain that takes the last part of the split whether or not
\* there is an '@'
extract_domain_last_part(email) ==
    LET at == {i \in 1..Len(email) : email[i] = "@"}
        last == IF at = {} THEN 0 ELSE CHOOSE i \in at : \A j \in at : j <= i
    IN  Lower(SubSeq(email, last + 1, Len(email)))

\* DomainCollector.extract_domain
extract_domain(email) ==
    IF Contains(email, "@") THEN Lower(SplitSecond(email, "@")) ELSE <<>>

(* ------------------------------ labels -------------------------------- *)

IMPORTANT == <<"I","M","P","O","R","T","A","N","T">>
STARRED   == <<"S","T","A","R","R","E","D">>
INBOX     == <<"I","N","B","O","X">>
Label_1   == <<"L","a","b","e","l","_","1">>
Label_2   == <<"L","a","b","e","l","_","2">>
\* the prefix of a custom user label
LabelPrefix == <<"L","a","b","e","l","_">>

\* the label ids the remote may attach to a thread or a message
Labels == {IMPORTANT, STARRED, INBOX, Label_1, Label_2}

(* ------------------------------ models.py ----------------------------- *)

\* Optional[...] = None
None == [isNone |-> TRUE, val |-> 0]
NoneSet == [isNone |-> TRUE, val |-> {}]
Some(v) == [isNone |-> FALSE, val |-> v]

\* the truth value Python gives an Optional[int]: None and 0 are false
Truthy(opt) == ~opt.isNone /\ opt.val # 0

\* CollectionConfig
CollectionConfig(limit, excluded, use_lp, plids) ==
    [limit |-> limit, excluded_domains |-> excluded,
     use_label_protection |-> use_lp, protected_label_ids |-> plids]

\* CleanupConfig
CleanupConfig(dry_run, limit) == [dry_run |-> dry_run, limit |-> limit]

\* ThreadMetadata (the subject is display text and is left out)
ThreadMetadata(thread_id, domain, sender, message_count, label_ids) ==
    [ok |-> TRUE, thread_id |-> thread_id, domain |-> domain, sender |-> sender,
     message_count |-> message_count, label_ids |-> label_ids]

\* the None that _get_thread_metadata returns
NoMetadata ==
    [ok |-> FALSE, thread_id |-> "", domain |-> <<>>, sender |-> <<>>,
     message_count |-> 0, label_ids |-> {}]

(* ------------------------------ filtering ----------------------------- *)

\* _is_protected without the IMPORTANT/STARRED rule
is_protected_labels_only(label_ids, cfg) ==
    IF ~cfg.use_label_protection THEN FALSE
    ELSE LET custom_labels == {l \in label_ids : StartsWith(l, LabelPrefix)}
         IN  IF custom_labels = {} THEN FALSE
             ELSE IF ~cfg.protected_label_ids.isNone
                  THEN \E l \in custom_labels : l \in cfg.protected_label_ids.val
                  ELSE TRUE

\* an _is_protected that consults the master switch first
is_protected_switch_first(label_ids, cfg) ==
    IF ~cfg.use_label_protection THEN FALSE
    ELSE IF IMPORTANT \in label_ids \/ STARRED \in label_ids THEN TRUE
    ELSE LET custom_labels == {l \in label_ids : StartsWith(l, LabelPrefix)}
         IN  IF custom_labels = {} THEN FALSE
             ELSE IF ~cfg.protected_label_ids.isNone
                  THEN \E l \in custom_labels : l \in cfg.protected_label_ids.val
                  ELSE TRUE

\* an _is_protected that tests protected_label_ids by truthiness, so that an
\* empty set counts as absent
is_protected_empty_as_none(label_ids, cfg) ==
    IF IMPORTANT \in label_ids \/ STARRED \in label_ids THEN TRUE
    ELSE IF ~cfg.use_label_protection THEN FALSE
    ELSE LET custom_labels == {l \in label_ids : StartsWith(l, LabelPrefix)}
         IN  IF custom_labels = {} THEN FALSE
             ELSE IF ~cfg.protected_label_ids.isNone
                     /\ cfg.protected_label_ids.val # {}
                  THEN \E l \in custom_labels : l \in cfg.protected_label_ids.val
                  ELSE TRUE

\* DomainCollector._is_protected
_is_protected(label_ids, cfg) ==
    IF IMPORTANT \in label_ids \/ STARRED \in label_ids THEN TRUE
    ELSE IF ~cfg.use_label_protection THEN FALSE
    ELSE LET custom_labels == {l \in label_ids : StartsWith(l, LabelPrefix)}
         IN  IF custom_labels = {} THEN FALSE
             ELSE IF ~cfg.protected_label_ids.isNone
                  THEN \E l \in custom_labels : l \in cfg.protected_label_ids.val
                  ELSE TRUE

\* _is_excluded that excludes nothing
is_excluded_never(domain, cfg) == FALSE

\* DomainCollector._is_excluded
_is_excluded(domain, cfg) == domain \in cfg.excluded_domains

\* _should_include that forgets the protection test
should_include_unprotecting(metadata, cfg) ==
    ~_is_excluded(metadata.domain, cfg)

\* DomainCollector._should_include
_should_include(metadata, cfg) ==
    IF _is_protected(metadata.label_ids, cfg) THEN FALSE
    ELSE IF _is_excluded(metadata.domain, cfg) THEN FALSE
    ELSE TRUE

(* ------------------------------ remote data --------------------------- *)

\* a default sender that reads as an address
UnknownSenderAddress ==
    <<"u","n","k","n","o","w","n","@","s","e","n","d","e","r">>

\* the sender default of a message without a From header
UnknownSender ==
    <<"(","U","n","k","n","o","w","n"," ","S","e","n","d","e","r",")">>

\* one message of a threads().get() answer
Message(hasFrom, from, labelIds) ==
    [hasFrom |-> hasFrom, From |-> from, labelIds |-> labelIds]

\* a threads().get() answer
ThreadData(labelIds, messages) == [labelIds |-> labelIds, messages |-> messages]

\* a _get_thread_metadata that reads the conversation-level labels only
get_thread_metadata_thread_labels(thread_id, thread_data) ==
    LET messages == thread_data.messages
    IN  IF messages = <<>> THEN NoMetadata
        ELSE LET first_message == messages[1]
                 sender == IF first_message.hasFrom THEN first_message.From
                           ELSE UnknownSender
                 sender_email == extract_email_address(sender)
                 all_label_ids == thread_data.labelIds
                 domain == extract_domain(sender_email)
             IN  IF domain = <<>> THEN NoMetadata
                 ELSE ThreadMetadata(thread_id, domain, sender_email,
                                     Len(messages), all_label_ids)

\* DomainCollector._get_thread_metadata, after the remote answered thread_data
_get_thread_metadata(thread_id, thread_data) ==
    LET messages == thread_data.messages
    IN  IF messages = <<>> THEN NoMetadata
        ELSE LET first_message == messages[1]
                 sender == IF first_message.hasFrom THEN first_message.From
                           ELSE UnknownSender
                 sender_email == extract_email_address(sender)
                 all_label_ids == thread_data.labelIds \cup first_message.labelIds
                 domain == extract_domain(sender_email)
             IN  IF domain = <<>> THEN NoMetadata
                 ELSE ThreadMetadata(thread_id, domain, sender_email,
                                     Len(messages), all_label_ids)

(* ------------------------------ state --------------------------------- *)

VARIABLES
    config,             \* DomainCollector.config
    threads_by_id,      \* DomainCollector.threads_by_id
    threads_by_domain,  \* DomainCollector.threads_by_domain
    interrupted,        \* DomainCollector.interrupted
    pc,                 \* where collect() stands
    domain_data,        \* collect(): domain -> count
    page_token,         \* collect(): token of the next list request
    next_page_token,    \* collect(): token the last page carried
    total_threads,      \* collect(): running processed count
    effective_total,    \* collect(): the displayed total
    threads,            \* collect(): ids of the page in hand
    idx,                \* collect(): position of the for loop in threads
    result,             \* what the last collect() returned
    calls_left,         \* collect() calls the caller still makes
    inbox_total,        \* remote: answer of the INBOX label query
    mailbox,            \* remote: thread data the scan in hand has been shown
    lists,              \* remote: list requests answered in the scan in hand
    listed,             \* remote: ids listed in the scan in hand
    requests,           \* remote: every request received, in order
    events,             \* progress sink: every event delivered, in order
    cconfig,            \* DomainCleaner.config
    cleaner_interrupted,\* DomainCleaner.interrupted
    cpc,                \* where cleanup() stands
    cthreads,           \* cleanup(): its argument
    cpos,               \* cleanup(): position of the for loop in threads
    total_processed,    \* cleanup(): counter
    threads_deleted,    \* cleanup(): counter
    messages_deleted,   \* cleanup(): counter
    messages_kept,      \* cleanup(): counter
    stats,              \* what cleanup() returned
    selected,           \* the domains the caller selected for cleanup
    arg,                \* the argument of a pure call under test
    ret,                \* what that call returned
    profiles,           \* remote: the thread data each id may be answered with
    chain,              \* remote: the pages of the inbox, when they are fixed
    first_run,          \* what an earlier collect() on the same inbox left
    suspended,          \* locals of a collect() suspended while another one runs
    in_flight           \* remote requests started and not yet answered

collectorVars == <<config, threads_by_id, threads_by_domain, interrupted, pc,
                   domain_data, page_token, next_page_token, total_threads,
                   effective_total, threads, idx, result, calls_left>>
remoteVars == <<inbox_total, mailbox, lists, listed>>
cleanerVars == <<cconfig, cleaner_interrupted, cpc, cthreads, cpos,
                 total_processed, threads_deleted, messages_deleted,
                 messages_kept, stats, selected>>
pureVars == <<arg, ret>>
scenarioVars == <<profiles, chain, first_run, suspended>>
vars == <<collectorVars, remoteVars, requests, events, cleanerVars, pureVars,
          scenarioVars, in_flight>>

(* ------------------------------ the remote mailbox -------------------- *)

\* conversation identifiers
Ids == {"t1", "t2"}

\* page_token = None
NoToken == 0

\* senders the remote shows in a From header
SenderX    == <<"a","@","X">>
SenderY    == <<"N"," ","<","b","@","y",">">>

\* the domains these senders yield
DomX == <<"x">>
DomY == <<"y">>

\* thread data the remote may answer a threads().get() with
TDPlain    == ThreadData({INBOX}, <<Message(TRUE, SenderX, {INBOX})>>)
TDTwo      == ThreadData({}, <<Message(TRUE, SenderY, {}),
                               Message(TRUE, SenderX, {IMPORTANT})>>)
TDImportant == ThreadData({IMPORTANT}, <<Message(TRUE, SenderX, {INBOX})>>)
TDCustom   == ThreadData({INBOX}, <<Message(TRUE, SenderY, {INBOX, Label_1})>>)
TDEmpty    == ThreadData({INBOX}, <<>>)
TDNoFrom   == ThreadData({INBOX}, <<Message(FALSE, <<>>, {INBOX})>>)
TDNoAt     == ThreadData({INBOX}, <<Message(TRUE, <<"B","o","b">>, {INBOX})>>)

ThreadDatas == {TDPlain, TDTwo, TDImportant, TDCustom, TDEmpty, TDNoFrom}

\* the same with a From header that holds no address
ScanThreadDatas == ThreadDatas \cup {TDNoAt}

\* what _get_thread_metadata returns for each id and each answer of the
\* remote, tabulated
ScanMetadata ==
    [id \in Ids, thread_data \in ScanThreadDatas |->
        _get_thread_metadata(id, thread_data)]

\* the pages a list request may return: every id sequence up to MaxListed
Pages == UNION {[1..n -> Ids] : n \in 0..MaxListed}

(* ------------------------------ progress and requests ----------------- *)

Event(name, data) == [event |-> name, data |-> data]
Request(op, target, ok) == [op |-> op, arg |-> target, ok |-> ok]

EmptyMap == [x \in {} |-> x]

\* dict.get(key, default)
Get(map, key, default) == IF key \in DOMAIN map THEN map[key] ELSE default

\* map[key] = value
Put(map, key, value) == (key :> value) @@ map

\* the remote answers a request: the answer is logged, and the request, when
\* its start was recorded, is the one in flight and is no longer in flight
Answer(req) ==
    /\ in_flight # <<>> => (in_flight[1].op = req.op /\ in_flight[1].arg = req.arg)
    /\ in_flight' = <<>>
    /\ requests' = Append(requests, req)

(* ------------------------------ collect() ----------------------------- *)

\* a _store_thread that skips the by-domain list
store_thread_by_id_only(metadata, by_id, by_domain) ==
    [by_id |-> Put(by_id, metadata.thread_id, metadata), by_domain |-> by_domain]

\* a _store_thread that puts the id at the head of its domain's list
store_thread_prepending(metadata, by_id, by_domain) ==
    [by_id |-> Put(by_id, metadata.thread_id, metadata),
     by_domain |-> Put(by_domain, metadata.domain,
                       <<metadata.thread_id>>
                           \o Get(by_domain, metadata.domain, <<>>))]

\* DomainCollector._store_thread: the two dictionaries after the call
_store_thread(metadata, by_id, by_domain) ==
    [by_id |-> Put(by_id, metadata.thread_id, metadata),
     by_domain |-> Put(by_domain, metadata.domain,
                       Append(Get(by_domain, metadata.domain, <<>>),
                              metadata.thread_id))]

\* a _build_results that counts the distinct ids of a domain
build_results_distinct(data, by_id, by_domain) ==
    [d \in DOMAIN data |->
        LET thread_ids == Get(by_domain, d, <<>>)
        IN  [domain |-> d,
             count |-> Cardinality({thread_ids[i] : i \in 1..Len(thread_ids)}),
             threads |-> [i \in 1..Len(thread_ids) |->
                            [thread_id |-> thread_ids[i],
                             sender |-> by_id[thread_ids[i]].sender,
                             message_count |-> by_id[thread_ids[i]].message_count]]]]

\* DomainCollector._build_results
_build_results(data, by_id, by_domain) ==
    [d \in DOMAIN data |->
        LET thread_ids == Get(by_domain, d, <<>>)
            Known(id) == id \in DOMAIN by_id
            stored == SelectSeq(thread_ids, Known)
        IN  [domain |-> d,
             count |-> data[d].count,
             threads |-> [i \in 1..Len(stored) |->
                            [thread_id |-> stored[i],
                             sender |-> by_id[stored[i]].sender,
                             message_count |-> by_id[stored[i]].message_count]]]]

\* the limit test of collect(), lines 100 and 109
LimitReached(n) == Truthy(config.limit) /\ n >= config.limit.val

\* a collect() that starts without clearing the index of the previous call
CollectStartKeepsIndex ==
    /\ pc \in {"idle", "done"}
    /\ cpc = "idle"
    /\ calls_left > 0
    /\ LET total_thread_count == IF inbox_total.isNone THEN 0 ELSE inbox_total.val
           eff == IF Truthy(config.limit)
                  THEN (IF config.limit.val < total_thread_count
                        THEN config.limit.val ELSE total_thread_count)
                  ELSE total_thread_count
       IN  /\ effective_total' = eff
           /\ events' = Append(events, Event("collection_started",
                            [total_threads |-> eff, limit |-> config.limit]))
    /\ Answer(Request("total", "INBOX", ~inbox_total.isNone))
    /\ domain_data' = EmptyMap
    /\ page_token' = NoToken
    /\ total_threads' = 0
    /\ calls_left' = calls_left - 1
    /\ mailbox' = EmptyMap
    /\ lists' = 0
    /\ listed' = 0
    /\ pc' = "while"
    /\ UNCHANGED <<config, threads_by_id, threads_by_domain, interrupted,
                   next_page_token, threads, idx, result,
                   inbox_total, cleanerVars, pureVars, scenarioVars>>

\* a collect() that reports a failed total query as an error and scans nothing
CollectStartAbortsOnTotalFailure ==
    /\ pc \in {"idle", "done"}
    /\ cpc = "idle"
    /\ calls_left > 0
    /\ LET total_thread_count == IF inbox_total.isNone THEN 0 ELSE inbox_total.val
           eff == IF Truthy(config.limit)
                  THEN (IF config.limit.val < total_thread_count
                        THEN config.limit.val ELSE total_thread_count)
                  ELSE total_thread_count
       IN  /\ effective_total' = eff
           /\ events' = IF inbox_total.isNone
                        THEN Append(events, Event("error", EmptyMap))
                        ELSE Append(events, Event("collection_started",
                                 [total_threads |-> eff, limit |-> config.limit]))
    /\ Answer(Request("total", "INBOX", ~inbox_total.isNone))
    /\ threads_by_id' = EmptyMap
    /\ threads_by_domain' = EmptyMap
    /\ domain_data' = EmptyMap
    /\ page_token' = NoToken
    /\ total_threads' = 0
    /\ calls_left' = calls_left - 1
    /\ mailbox' = EmptyMap
    /\ lists' = 0
    /\ listed' = 0
    /\ pc' = IF inbox_total.isNone THEN "build" ELSE "while"
    /\ UNCHANGED <<config, interrupted, next_page_token, threads, idx, result,
                   inbox_total, cleanerVars, pureVars, scenarioVars>>

\* a collect() that starts by clearing the interrupted flag
CollectStartClearsFlag ==
    /\ pc \in {"idle", "done"}
    /\ cpc = "idle"
    /\ calls_left > 0
    /\ LET total_thread_count == IF inbox_total.isNone THEN 0 ELSE inbox_total.val
           eff == IF Truthy(config.limit)
                  THEN (IF config.limit.val < total_thread_count
                        THEN config.limit.val ELSE total_thread_count)
                  ELSE total_thread_count
       IN  /\ effective_total' = eff
           /\ events' = Append(events, Event("collection_started",
                            [total_threads |-> eff, limit |-> config.limit]))
    /\ Answer(Request("total", "INBOX", ~inbox_total.isNone))
    /\ threads_by_id' = EmptyMap
    /\ threads_by_domain' = EmptyMap
    /\ domain_data' = EmptyMap
    /\ page_token' = NoToken
    /\ total_threads' = 0
    /\ calls_left' = calls_left - 1
    /\ mailbox' = EmptyMap
    /\ lists' = 0
    /\ listed' = 0
    /\ pc' = "while"
    /\ interrupted' = FALSE
    /\ UNCHANGED <<config, next_page_token, threads, idx, result,
                   inbox_total, cleanerVars, pureVars, scenarioVars>>

\* collect() line 41-57: total count, collection_started, reset
CollectStart ==
    /\ pc \in {"idle", "done"}
    /\ cpc = "idle"
    /\ calls_left > 0
    /\ LET total_thread_count == IF inbox_total.isNone THEN 0 ELSE inbox_total.val
           eff == IF Truthy(config.limit)
                  THEN (IF config.limit.val < total_thread_count
                        THEN config.limit.val ELSE total_thread_count)
                  ELSE total_thread_count
       IN  /\ effective_total' = eff
           /\ events' = Append(events, Event("collection_started",
                            [total_threads |-> eff, limit |-> config.limit]))
    /\ Answer(Request("total", "INBOX", ~inbox_total.isNone))
    /\ threads_by_id' = EmptyMap
    /\ threads_by_domain' = EmptyMap
    /\ domain_data' = EmptyMap
    /\ page_token' = NoToken
    /\ total_threads' = 0
    /\ calls_left' = calls_left - 1
    /\ mailbox' = EmptyMap
    /\ lists' = 0
    /\ listed' = 0
    /\ pc' = "while"
    /\ UNCHANGED <<config, interrupted, next_page_token, threads, idx, result,
                   inbox_total, cleanerVars, pureVars, scenarioVars>>

\* the local variables of one collect() invocation, with the paging position
\* of the remote it talks to
Locals ==
    [pc |-> pc, domain_data |-> domain_data, page_token |-> page_token,
     next_page_token |-> next_page_token, total_threads |-> total_threads,
     effective_total |-> effective_total, threads |-> threads, idx |-> idx,
     result |-> result, lists |-> lists, listed |-> listed]

\* collect() line 41-57 entered a second time while the first invocation is
\* suspended at a remote call or a progress callback: the new invocation has
\* its own locals and clears the shared index
CollectStartOverlapping ==
    /\ pc \in {"while", "for"}
    /\ suspended.isNone
    /\ suspended' = Some(Locals)
    /\ cpc = "idle"
    /\ calls_left > 0
    /\ LET total_thread_count == IF inbox_total.isNone THEN 0 ELSE inbox_total.val
           eff == IF Truthy(config.limit)
                  THEN (IF config.limit.val < total_thread_count
                        THEN config.limit.val ELSE total_thread_count)
                  ELSE total_thread_count
       IN  /\ effective_total' = eff
           /\ events' = Append(events, Event("collection_started",
                            [total_threads |-> eff, limit |-> config.limit]))
    /\ Answer(Request("total", "INBOX", ~inbox_total.isNone))
    /\ threads_by_id' = EmptyMap
    /\ threads_by_domain' = EmptyMap
    /\ domain_data' = EmptyMap
    /\ page_token' = NoToken
    /\ total_threads' = 0
    /\ calls_left' = calls_left - 1
    /\ lists' = 0
    /\ listed' = 0
    /\ pc' = "while"
    /\ UNCHANGED <<config, interrupted, next_page_token, threads, idx, result,
                   inbox_total, mailbox, cleanerVars, pureVars, profiles, chain,
                   first_run>>

\* the event loop resumes the suspended invocation at its await and suspends
\* the running one at its own (or keeps what it returned)
Resume ==
    /\ ~suspended.isNone
    /\ pc \in {"while", "for", "done"}
    /\ suspended.val.pc \in {"while", "for"}
    /\ suspended' = Some(Locals)
    /\ pc' = suspended.val.pc
    /\ domain_data' = suspended.val.domain_data
    /\ page_token' = suspended.val.page_token
    /\ next_page_token' = suspended.val.next_page_token
    /\ total_threads' = suspended.val.total_threads
    /\ effective_total' = suspended.val.effective_total
    /\ threads' = suspended.val.threads
    /\ idx' = suspended.val.idx
    /\ result' = suspended.val.result
    /\ lists' = suspended.val.lists
    /\ listed' = suspended.val.listed
    /\ UNCHANGED <<config, threads_by_id, threads_by_domain, interrupted, calls_left,
                   inbox_total, mailbox, requests, events, cleanerVars, pureVars,
                   profiles, chain, first_run, in_flight>>


\* collect() line 59: the while test finds the flag set
WhileInterrupted ==
    /\ pc = "while"
    /\ interrupted
    /\ pc' = "build"
    /\ UNCHANGED <<config, threads_by_id, threads_by_domain, interrupted,
                   domain_data, page_token, next_page_token, total_threads,
                   effective_total, threads, idx, result, calls_left,
                   remoteVars, requests, events, cleanerVars, pureVars, scenarioVars, in_flight>>

\* a page fetch whose loop head does not test the flag
FetchPageIgnoringFlag ==
    /\ pc = "while"
    /\ lists < MaxLists
    /\ \E ids \in Pages, more \in BOOLEAN :
          /\ (lists + 1 = MaxLists) => ~more
          /\ listed + Len(ids) <= MaxListed
          /\ ~chain.isNone => /\ lists + 1 <= Len(chain.val)
                              /\ chain.val[lists + 1] = [ids |-> ids, more |-> more]
          /\ listed' = listed + Len(ids)
          /\ Answer(Request("list", page_token, TRUE))
          /\ lists' = lists + 1
          /\ IF ids = <<>>
             THEN /\ pc' = "build"
                  /\ UNCHANGED <<threads, next_page_token, idx>>
             ELSE /\ threads' = ids
                  /\ next_page_token' = (IF more THEN lists + 2 ELSE NoToken)
                  /\ idx' = 1
                  /\ pc' = "for"
    /\ interrupted' \in BOOLEAN
    /\ UNCHANGED <<config, threads_by_id, threads_by_domain,
                   domain_data, page_token, total_threads, effective_total,
                   result, calls_left, inbox_total, mailbox, events, cleanerVars, pureVars, scenarioVars>>

\* collect() line 61-64: a page is fetched; the flag may be set while the
\* list request is awaited
FetchPage ==
    /\ pc = "while"
    /\ ~interrupted
    /\ lists < MaxLists
    /\ \E ids \in Pages, more \in BOOLEAN :
          /\ (lists + 1 = MaxLists) => ~more
          /\ listed + Len(ids) <= MaxListed
          /\ ~chain.isNone => /\ lists + 1 <= Len(chain.val)
                              /\ chain.val[lists + 1] = [ids |-> ids, more |-> more]
          /\ listed' = listed + Len(ids)
          /\ Answer(Request("list", page_token, TRUE))
          /\ lists' = lists + 1
          /\ IF ids = <<>>
             THEN /\ pc' = "build"
                  /\ UNCHANGED <<threads, next_page_token, idx>>
             ELSE /\ threads' = ids
                  /\ next_page_token' = (IF more THEN lists + 2 ELSE NoToken)
                  /\ idx' = 1
                  /\ pc' = "for"
    /\ interrupted' \in BOOLEAN
    /\ UNCHANGED <<config, threads_by_id, threads_by_domain,
                   domain_data, page_token, total_threads, effective_total,
                   result, calls_left, inbox_total, mailbox, events, cleanerVars, pureVars, scenarioVars>>

\* collect() line 116-118: the list request fails
FetchPageError ==
    /\ pc = "while"
    /\ ~interrupted
    /\ lists < MaxLists
    /\ Answer(Request("list", page_token, FALSE))
    /\ events' = Append(events, Event("error", EmptyMap))
    /\ pc' = "build"
    /\ UNCHANGED <<config, threads_by_id, threads_by_domain, interrupted,
                   domain_data, page_token, next_page_token, total_threads,
                   effective_total, threads, idx, result, calls_left,
                   remoteVars, cleanerVars, pureVars, scenarioVars>>

\* an end of page that leaves page_token as it was
after_page_keeps_token(n) ==
    IF LimitReached(n)
    THEN pc' = "build" /\ UNCHANGED page_token
    ELSE /\ page_token' = page_token
         /\ pc' = IF next_page_token = NoToken THEN "build" ELSE "while"

\* collect() line 108-114: after the for loop
AfterPage(n) ==
    IF LimitReached(n)
    THEN pc' = "build" /\ UNCHANGED page_token
    ELSE /\ page_token' = next_page_token
         /\ pc' = IF next_page_token = NoToken THEN "build" ELSE "while"

\* collect() line 66-68: the page is exhausted, or the flag is found set
ForEnd ==
    /\ pc = "for"
    /\ idx > Len(threads) \/ interrupted
    /\ AfterPage(total_threads)
    /\ UNCHANGED <<config, threads_by_id, threads_by_domain, interrupted,
                   domain_data, next_page_token, total_threads,
                   effective_total, threads, idx, result, calls_left,
                   remoteVars, requests, events, cleanerVars, pureVars, scenarioVars, in_flight>>

\* a loop body that counts a conversation before it is filtered
ProcessThreadCountsSkipped ==
    /\ pc = "for"
    /\ idx <= Len(threads)
    /\ ~interrupted
    /\ LET thread_id == threads[idx]
       IN  \E thread_data \in profiles[thread_id] :
             /\ thread_id \in DOMAIN mailbox => thread_data = mailbox[thread_id]
             /\ mailbox' = Put(mailbox, thread_id, thread_data)
             /\ Answer(Request("get", thread_id, TRUE))
             /\ LET metadata == ScanMetadata[thread_id, thread_data]
                IN  IF ~metadata.ok \/ ~_should_include(metadata, config)
                    THEN /\ idx' = idx + 1
                         /\ total_threads' = total_threads + 1
                         /\ UNCHANGED <<threads_by_id, threads_by_domain,
                                        domain_data, events, pc, page_token>>
                    ELSE LET stored == _store_thread(metadata, threads_by_id,
                                                     threads_by_domain)
                             data == Put(domain_data, metadata.domain,
                                       [count |-> Get(domain_data, metadata.domain,
                                                      [count |-> 0]).count + 1])
                         IN  /\ threads_by_id' = stored.by_id
                             /\ threads_by_domain' = stored.by_domain
                             /\ domain_data' = data
                             /\ total_threads' = total_threads + 1
                             /\ events' = Append(events, Event("thread_processed",
                                   [thread_id |-> thread_id,
                                    domain |-> metadata.domain,
                                    processed_threads |-> total_threads + 1,
                                    total_threads |-> effective_total,
                                    unique_domains |-> Cardinality(DOMAIN data)]))
                             /\ IF LimitReached(total_threads + 1)
                                THEN AfterPage(total_threads + 1) /\ UNCHANGED idx
                                ELSE idx' = idx + 1 /\ UNCHANGED <<pc, page_token>>
    /\ interrupted' \in BOOLEAN
    /\ UNCHANGED <<config, next_page_token, effective_total,
                   threads, result, calls_left, inbox_total, lists, listed, cleanerVars, pureVars, scenarioVars>>

\* collect() line 70-106: one conversation of the page; the flag may be set
\* while the metadata request is awaited
ProcessThread ==
    /\ pc = "for"
    /\ idx <= Len(threads)
    /\ ~interrupted
    /\ LET thread_id == threads[idx]
       IN  \E thread_data \in profiles[thread_id] :
             /\ thread_id \in DOMAIN mailbox => thread_data = mailbox[thread_id]
             /\ mailbox' = Put(mailbox, thread_id, thread_data)
             /\ Answer(Request("get", thread_id, TRUE))
             /\ LET metadata == ScanMetadata[thread_id, thread_data]
                IN  IF ~metadata.ok \/ ~_should_include(metadata, config)
                    THEN /\ idx' = idx + 1
                         /\ UNCHANGED <<threads_by_id, threads_by_domain,
                                        domain_data, total_threads, events,
                                        pc, page_token>>
                    ELSE LET stored == _store_thread(metadata, threads_by_id,
                                                     threads_by_domain)
                             data == Put(domain_data, metadata.domain,
                                       [count |-> Get(domain_data, metadata.domain,
                                                      [count |-> 0]).count + 1])
                         IN  /\ threads_by_id' = stored.by_id
                             /\ threads_by_domain' = stored.by_domain
                             /\ domain_data' = data
                             /\ total_threads' = total_threads + 1
                             /\ events' = Append(events, Event("thread_processed",
                                   [thread_id |-> thread_id,
                                    domain |-> metadata.domain,
                                    processed_threads |-> total_threads + 1,
                                    total_threads |-> effective_total,
                                    unique_domains |-> Cardinality(DOMAIN data)]))
                             /\ IF LimitReached(total_threads + 1)
                                THEN AfterPage(total_threads + 1) /\ UNCHANGED idx
                                ELSE idx' = idx + 1 /\ UNCHANGED <<pc, page_token>>
    /\ interrupted' \in BOOLEAN
    /\ UNCHANGED <<config, next_page_token, effective_total,
                   threads, result, calls_left, inbox_total, lists, listed, cleanerVars, pureVars, scenarioVars>>

\* a failed get request that is skipped, the scan going on with the next id
ProcessThreadErrorSkips ==
    /\ pc = "for"
    /\ idx <= Len(threads)
    /\ ~interrupted
    /\ Answer(Request("get", threads[idx], FALSE))
    /\ events' = Append(events, Event("error", EmptyMap))
    /\ idx' = idx + 1
    /\ UNCHANGED <<config, threads_by_id, threads_by_domain, interrupted,
                   domain_data, page_token, next_page_token, total_threads,
                   effective_total, threads, pc, result, calls_left,
                   remoteVars, cleanerVars, pureVars, scenarioVars>>

\* collect() line 116-118: the get request fails
ProcessThreadError ==
    /\ pc = "for"
    /\ idx <= Len(threads)
    /\ ~interrupted
    /\ Answer(Request("get", threads[idx], FALSE))
    /\ events' = Append(events, Event("error", EmptyMap))
    /\ pc' = "build"
    /\ UNCHANGED <<config, threads_by_id, threads_by_domain, interrupted,
                   domain_data, page_token, next_page_token, total_threads,
                   effective_total, threads, idx, result, calls_left,
                   remoteVars, cleanerVars, pureVars, scenarioVars>>

\* a collect() that returns without collection_completed after an error
BuildSilentAfterError ==
    /\ pc = "build"
    /\ LET r == _build_results(domain_data, threads_by_id, threads_by_domain)
       IN  /\ result' = r
           /\ events' = IF events # <<>> /\ events[Len(events)].event = "error"
                        THEN events
                        ELSE Append(events, Event("collection_completed",
                                [processed_threads |-> total_threads,
                                 total_threads |-> effective_total,
                                 unique_domains |-> Cardinality(DOMAIN r)]))
    /\ pc' = "done"
    /\ UNCHANGED <<config, threads_by_id, threads_by_domain, interrupted,
                   domain_data, page_token, next_page_token, total_threads,
                   effective_total, threads, idx, calls_left,
                   remoteVars, requests, cleanerVars, pureVars, scenarioVars, in_flight>>

\* a Build that reports the number of conversations as unique_domains
BuildCountsConversations ==
    /\ pc = "build"
    /\ LET r == _build_results(domain_data, threads_by_id, threads_by_domain)
       IN  /\ result' = r
           /\ events' = Append(events, Event("collection_completed",
                   [processed_threads |-> total_threads,
                    total_threads |-> effective_total,
                    unique_domains |-> Cardinality(DOMAIN threads_by_id)]))
    /\ pc' = "done"
    /\ UNCHANGED <<config, threads_by_id, threads_by_domain, interrupted,
                   domain_data, page_token, next_page_token, total_threads,
                   effective_total, threads, idx, calls_left,
                   remoteVars, requests, cleanerVars, pureVars, scenarioVars, in_flight>>

\* collect() line 120-133: build the result, collection_completed, return
Build ==
    /\ pc = "build"
    /\ LET r == _build_results(domain_data, threads_by_id, threads_by_domain)
       IN  /\ result' = r
           /\ events' = Append(events, Event("collection_completed",
                   [processed_threads |-> total_threads,
                    total_threads |-> effective_total,
                    unique_domains |-> Cardinality(DOMAIN r)]))
    /\ pc' = "done"
    /\ UNCHANGED <<config, threads_by_id, threads_by_domain, interrupted,
                   domain_data, page_token, next_page_token, total_threads,
                   effective_total, threads, idx, calls_left,
                   remoteVars, requests, cleanerVars, pureVars, scenarioVars, in_flight>>

\* the caller or a signal handler sets the collector's flag
Interrupt ==
    /\ pc \in {"idle", "while", "for"}
    /\ ~interrupted
    /\ interrupted' = TRUE
    /\ UNCHANGED <<config, threads_by_id, threads_by_domain, pc,
                   domain_data, page_token, next_page_token, total_threads,
                   effective_total, threads, idx, result, calls_left,
                   remoteVars, requests, events, cleanerVars, pureVars, scenarioVars, in_flight>>

(* ------------------------------ cleanup() ----------------------------- *)

\* the thread dict cleanup() is handed (the subject is display text, left out)
ThreadDict(thread_id, domain, sender, message_count) ==
    [thread_id |-> thread_id, domain |-> domain, sender |-> sender,
     message_count |-> message_count]

\* DomainCleaner._build_stats
_build_stats(processed, deleted, msgs_deleted, kept) ==
    [threads_processed |-> processed, threads_deleted |-> deleted,
     messages_deleted |-> msgs_deleted, messages_kept |-> kept]

\* the thread dicts of one domain of the collector's index
DomainThreads(d, by_id, by_domain) ==
    LET Known(id) == id \in DOMAIN by_id
        ids == SelectSeq(Get(by_domain, d, <<>>), Known)
    IN  [i \in 1..Len(ids) |->
            ThreadDict(ids[i], by_id[ids[i]].domain, by_id[ids[i]].sender,
                       by_id[ids[i]].message_count)]

\* the threads of the selected domains, looked up in the collector's index
RECURSIVE LookupThreads(_, _, _)
LookupThreads(doms, by_id, by_domain) ==
    IF doms = <<>> THEN <<>>
    ELSE DomainThreads(Head(doms), by_id, by_domain)
         \o LookupThreads(Tail(doms), by_id, by_domain)

\* the cleanup selections
CleanupConfigs == {CleanupConfig(d, l) : d \in BOOLEAN, l \in {None, Some(1)}}

\* the selections a caller may make
Selections == {<<>>, <<DomX>>, <<DomY>>, <<DomY, DomX>>}

\* the caller selects domains and looks their threads up for cleanup()
Lookup ==
    /\ pc = "done"
    /\ cpc = "idle"
    /\ \E doms \in Selections :
          /\ selected' = {doms[i] : i \in 1..Len(doms)}
          /\ cthreads' = LookupThreads(doms, threads_by_id, threads_by_domain)
    /\ cconfig' \in {CleanupConfig(d, None) : d \in BOOLEAN}
    /\ cpc' = "called"
    /\ UNCHANGED <<pureVars, scenarioVars, in_flight, collectorVars, remoteVars, requests, events,
                   cleaner_interrupted, cpos, total_processed, threads_deleted,
                   messages_deleted, messages_kept, stats>>

\* a cleanup() without the early return, reporting an empty run
CleanupEmptyReporting ==
    /\ cpc = "called"
    /\ cthreads = <<>>
    /\ stats' = _build_stats(0, 0, 0, 0)
    /\ events' = events \o
          <<Event("cleanup_started",
                  [dry_run |-> cconfig.dry_run, limit |-> cconfig.limit,
                   threads_to_process |-> 0]),
            Event("cleanup_completed", _build_stats(0, 0, 0, 0))>>
    /\ cpc' = "done"
    /\ UNCHANGED <<pureVars, scenarioVars, in_flight, collectorVars, remoteVars, requests, cconfig,
                   cleaner_interrupted, cthreads, cpos, total_processed,
                   threads_deleted, messages_deleted, messages_kept, selected>>

\* cleanup() line 35-37: nothing to do
CleanupEmpty ==
    /\ cpc = "called"
    /\ cthreads = <<>>
    /\ stats' = _build_stats(0, 0, 0, 0)
    /\ cpc' = "done"
    /\ UNCHANGED <<pureVars, scenarioVars, in_flight, collectorVars, remoteVars, requests, events, cconfig,
                   cleaner_interrupted, cthreads, cpos, total_processed,
                   threads_deleted, messages_deleted, messages_kept, selected>>

\* cleanup() line 39-48: cleanup_started, counters
CleanupStart ==
    /\ cpc = "called"
    /\ cthreads # <<>>
    /\ events' = Append(events, Event("cleanup_started",
                    [dry_run |-> cconfig.dry_run, limit |-> cconfig.limit,
                     threads_to_process |-> Len(cthreads)]))
    /\ total_processed' = 0
    /\ threads_deleted' = 0
    /\ messages_deleted' = 0
    /\ messages_kept' = 0
    /\ cpos' = 1
    /\ cpc' = "loop"
    /\ UNCHANGED <<pureVars, scenarioVars, in_flight, collectorVars, remoteVars, requests, cconfig,
                   cleaner_interrupted, cthreads, stats, selected>>

\* the thread_analyzed event of cleanup() line 61-65
Analyzed(thread) ==
    Event("thread_analyzed",
          [thread_id |-> thread.thread_id, sender |-> thread.sender])

\* the payload of would_delete and deleted
Outcome(name, thread) ==
    Event(name, [thread_id |-> thread.thread_id, sender |-> thread.sender,
                 message_count |-> thread.message_count])

\* a loop head that does not test the flag
CleanupContinuesIgnoringFlag == cpos <= Len(cthreads)

\* whether cleanup() goes round its loop once more (line 50-52)
CleanupContinues == cpos <= Len(cthreads) /\ ~cleaner_interrupted

\* a dry run that trashes all the same
CleanupThreadDryTrashing ==
    /\ cpc = "loop"
    /\ CleanupContinues
    /\ cconfig.dry_run
    /\ LET thread == cthreads[cpos]
       IN  /\ Answer(Request("trash", thread.thread_id, TRUE))
           /\ events' = events \o <<Analyzed(thread), Outcome("would_delete", thread)>>
           /\ threads_deleted' = threads_deleted + 1
           /\ messages_deleted' = messages_deleted + thread.message_count
    /\ total_processed' = total_processed + 1
    /\ cpos' = cpos + 1
    /\ cleaner_interrupted' \in BOOLEAN
    /\ UNCHANGED <<pureVars, scenarioVars, collectorVars, remoteVars, cconfig,
                   cpc, cthreads, messages_kept, stats, selected>>

\* a dry-run step that fetches the thread again before it reports
CleanupThreadDryRefetching ==
    /\ cpc = "loop"
    /\ CleanupContinues
    /\ cconfig.dry_run
    /\ LET thread == cthreads[cpos]
       IN  /\ Answer(Request("get", thread.thread_id, TRUE))
           /\ events' = events \o <<Analyzed(thread), Outcome("would_delete", thread)>>
           /\ threads_deleted' = threads_deleted + 1
           /\ messages_deleted' = messages_deleted + thread.message_count
    /\ total_processed' = total_processed + 1
    /\ cpos' = cpos + 1
    /\ cleaner_interrupted' \in BOOLEAN
    /\ UNCHANGED <<pureVars, scenarioVars, collectorVars, remoteVars, cconfig,
                   cpc, cthreads, messages_kept, stats, selected>>

\* cleanup() line 67-76, 97: one thread of a dry run; the flag may be set
\* while a progress callback is awaited
CleanupThreadDry ==
    /\ cpc = "loop"
    /\ CleanupContinues
    /\ cconfig.dry_run
    /\ LET thread == cthreads[cpos]
       IN  /\ events' = events \o <<Analyzed(thread), Outcome("would_delete", thread)>>
           /\ threads_deleted' = threads_deleted + 1
           /\ messages_deleted' = messages_deleted + thread.message_count
    /\ total_processed' = total_processed + 1
    /\ cpos' = cpos + 1
    /\ cleaner_interrupted' \in BOOLEAN
    /\ UNCHANGED <<pureVars, scenarioVars, in_flight, collectorVars, remoteVars, requests, cconfig,
                   cpc, cthreads, messages_kept, stats, selected>>

\* a successful trash reported with the event of a dry run
CleanupThreadTrashedAsWouldDelete ==
    /\ cpc = "loop"
    /\ CleanupContinues
    /\ ~cconfig.dry_run
    /\ LET thread == cthreads[cpos]
       IN  /\ Answer(Request("trash", thread.thread_id, TRUE))
           /\ events' = events \o <<Analyzed(thread), Outcome("would_delete", thread)>>
           /\ threads_deleted' = threads_deleted + 1
           /\ messages_deleted' = messages_deleted + thread.message_count
    /\ total_processed' = total_processed + 1
    /\ cpos' = cpos + 1
    /\ cleaner_interrupted' \in BOOLEAN
    /\ UNCHANGED <<pureVars, scenarioVars, collectorVars, remoteVars, cconfig,
                   cpc, cthreads, messages_kept, stats, selected>>

\* cleanup() line 79-89, 97 with _trash_thread line 108-115: the trash
\* succeeds; the flag may be set while the thread is being processed
CleanupThreadTrashed ==
    /\ cpc = "loop"
    /\ CleanupContinues
    /\ ~cconfig.dry_run
    /\ LET thread == cthreads[cpos]
       IN  /\ Answer(Request("trash", thread.thread_id, TRUE))
           /\ events' = events \o <<Analyzed(thread), Outcome("deleted", thread)>>
           /\ threads_deleted' = threads_deleted + 1
           /\ messages_deleted' = messages_deleted + thread.message_count
    /\ total_processed' = total_processed + 1
    /\ cpos' = cpos + 1
    /\ cleaner_interrupted' \in BOOLEAN
    /\ UNCHANGED <<pureVars, scenarioVars, collectorVars, remoteVars, cconfig,
                   cpc, cthreads, messages_kept, stats, selected>>

\* a failed trash whose messages are not counted as kept
CleanupThreadTrashErrorUncounted ==
    /\ cpc = "loop"
    /\ CleanupContinues
    /\ ~cconfig.dry_run
    /\ LET thread == cthreads[cpos]
       IN  /\ Answer(Request("trash", thread.thread_id, FALSE))
           /\ events' = events \o <<Analyzed(thread),
                                    Event("delete_error",
                                          [thread_id |-> thread.thread_id])>>
    /\ total_processed' = total_processed + 1
    /\ cpos' = cpos + 1
    /\ cleaner_interrupted' \in BOOLEAN
    /\ UNCHANGED <<pureVars, scenarioVars, collectorVars, remoteVars, cconfig,
                   cpc, cthreads, threads_deleted, messages_deleted,
                   messages_kept, stats, selected>>

\* a failed trash that leaves the loop
CleanupThreadTrashErrorAborts ==
    /\ cpc = "loop"
    /\ CleanupContinues
    /\ ~cconfig.dry_run
    /\ LET thread == cthreads[cpos]
       IN  /\ Answer(Request("trash", thread.thread_id, FALSE))
           /\ events' = events \o <<Analyzed(thread),
                                    Event("delete_error",
                                          [thread_id |-> thread.thread_id])>>
           /\ messages_kept' = messages_kept + thread.message_count
    /\ total_processed' = total_processed + 1
    /\ cpos' = Len(cthreads) + 1
    /\ cleaner_interrupted' \in BOOLEAN
    /\ UNCHANGED <<pureVars, scenarioVars, collectorVars, remoteVars, cconfig,
                   cpc, cthreads, threads_deleted, messages_deleted, stats,
                   selected>>

\* a failed trash that is tried once more before the thread is given up
CleanupThreadTrashErrorRetries ==
    /\ cpc = "loop"
    /\ CleanupContinues
    /\ ~cconfig.dry_run
    /\ LET thread == cthreads[cpos]
       IN  /\ in_flight' = <<>>
           /\ requests' = requests \o <<Request("trash", thread.thread_id, FALSE),
                                         Request("trash", thread.thread_id, FALSE)>>
           /\ events' = events \o <<Analyzed(thread),
                                    Event("delete_error",
                                          [thread_id |-> thread.thread_id])>>
           /\ messages_kept' = messages_kept + thread.message_count
    /\ total_processed' = total_processed + 1
    /\ cpos' = cpos + 1
    /\ cleaner_interrupted' \in BOOLEAN
    /\ UNCHANGED <<pureVars, scenarioVars, collectorVars, remoteVars, cconfig,
                   cpc, cthreads, threads_deleted, messages_deleted, stats,
                   selected>>

\* cleanup() line 79, 90-97 with _trash_thread line 116-118: the trash
\* fails; the flag may be set while the thread is being processed
CleanupThreadTrashError ==
    /\ cpc = "loop"
    /\ CleanupContinues
    /\ ~cconfig.dry_run
    /\ LET thread == cthreads[cpos]
       IN  /\ Answer(Request("trash", thread.thread_id, FALSE))
           /\ events' = events \o <<Analyzed(thread),
                                    Event("delete_error",
                                          [thread_id |-> thread.thread_id])>>
           /\ messages_kept' = messages_kept + thread.message_count
    /\ total_processed' = total_processed + 1
    /\ cpos' = cpos + 1
    /\ cleaner_interrupted' \in BOOLEAN
    /\ UNCHANGED <<pureVars, scenarioVars, collectorVars, remoteVars, cconfig,
                   cpc, cthreads, threads_deleted, messages_deleted, stats,
                   selected>>

\* cleanup() line 99-102: the loop is over; cleanup_completed, return
CleanupFinish ==
    /\ cpc = "loop"
    /\ ~CleanupContinues
    /\ LET r == _build_stats(total_processed, threads_deleted,
                             messages_deleted, messages_kept)
       IN  /\ stats' = r
           /\ events' = Append(events, Event("cleanup_completed", r))
    /\ cpc' = "done"
    /\ UNCHANGED <<pureVars, scenarioVars, in_flight, collectorVars, remoteVars, requests, cconfig,
                   cleaner_interrupted, cthreads, cpos, total_processed,
                   threads_deleted, messages_deleted, messages_kept, selected>>

\* the caller or a signal handler sets the cleaner's flag
CleanerInterrupt ==
    /\ cpc \in {"called", "loop"}
    /\ ~cleaner_interrupted
    /\ cleaner_interrupted' = TRUE
    /\ UNCHANGED <<pureVars, scenarioVars, in_flight, collectorVars, remoteVars, requests, events, cconfig, cpc,
                   cthreads, cpos, total_processed, threads_deleted,
                   messages_deleted, messages_kept, stats, selected>>

(* ------------------------------ specifications ------------------------ *)

\* the limits a configuration may carry
Limits == {None, Some(0), Some(1), Some(2)}

\* the collection policies of the collector-only specification
CollectionConfigs ==
    {CollectionConfig(l, e, TRUE, p) :
        l \in Limits, e \in {{}, {DomY}},
        p \in {NoneSet, Some({}), Some({Label_1})}}
    \cup {CollectionConfig(l, e, FALSE, NoneSet) : l \in Limits, e \in {{}, {DomY}}}

\* the collection policies of the end-to-end specification
PipelineConfigs ==
    {CollectionConfig(None, {}, TRUE, NoneSet),
     CollectionConfig(Some(1), {DomY}, TRUE, Some({Label_1})),
     CollectionConfig(Some(2), {}, FALSE, NoneSet)}

\* the thread dicts of the cleaner-only specification
ThreadDicts ==
    {ThreadDict(id, DomX, <<"a","@","x">>, n) : id \in Ids, n \in 0..MaxMsgCount}

\* no pure call has returned
NoReturn == [done |-> FALSE, value |-> FALSE]
Return(v) == [done |-> TRUE, value |-> v]

\* a remote that may answer every id with any of ThreadDatas and list any
\* pages, and no earlier run to compare with
FreeRemote ==
    /\ profiles = [id \in Ids |-> ThreadDatas]
    /\ chain = None
    /\ first_run = None
    /\ suspended = None
    /\ in_flight = <<>>

\* a collector as __init__ leaves it, collect() not yet called, and empty
\* logs
CollectorNew ==
    /\ threads_by_id = EmptyMap
    /\ threads_by_domain = EmptyMap
    /\ interrupted = FALSE
    /\ pc = "idle"
    /\ domain_data = EmptyMap
    /\ page_token = NoToken
    /\ next_page_token = NoToken
    /\ total_threads = 0
    /\ effective_total = 0
    /\ threads = <<>>
    /\ idx = 1
    /\ result = EmptyMap
    /\ mailbox = EmptyMap
    /\ lists = 0
    /\ listed = 0
    /\ requests = <<>>
    /\ events = <<>>

\* a new collector whose caller makes one collect() call, on a free remote
CollectorIdle ==
    /\ CollectorNew
    /\ calls_left = 1
    /\ FreeRemote

\* a cleaner as __init__ leaves it, cleanup() not yet called
CleanerIdle ==
    /\ cleaner_interrupted = FALSE
    /\ cpos = 1
    /\ total_processed = 0
    /\ threads_deleted = 0
    /\ messages_deleted = 0
    /\ messages_kept = 0
    /\ stats = _build_stats(0, 0, 0, 0)
    /\ selected = {}
    /\ arg = {}
    /\ ret = NoReturn

\* collector only: every policy with the INBOX total answered, and the
\* end-to-end policies with the INBOX total query failing
InitCollect ==
    /\ \/ config \in CollectionConfigs /\ inbox_total = Some(3)
       \/ config \in PipelineConfigs /\ inbox_total = None
    /\ CollectorIdle
    /\ cconfig = CleanupConfig(TRUE, None)
    /\ cpc = "idle"
    /\ cthreads = <<>>
    /\ CleanerIdle

NextCollect ==
    \/ CollectStart
    \/ WhileInterrupted
    \/ FetchPage
    \/ FetchPageError
    \/ ForEnd
    \/ ProcessThread
    \/ ProcessThreadError
    \/ Build
    \/ Interrupt

SpecCollect == InitCollect /\ [][NextCollect]_vars

\* cleaner only: cleanup() called with any thread list up to MaxThreads
InitCleanup ==
    /\ config = CollectionConfig(None, {}, TRUE, NoneSet)
    /\ inbox_total = None
    /\ CollectorIdle
    /\ cconfig \in CleanupConfigs
    /\ cpc = "called"
    /\ cthreads \in UNION {[1..n -> ThreadDicts] : n \in 0..MaxThreads}
    /\ CleanerIdle

NextCleanup ==
    \/ CleanupEmpty
    \/ CleanupStart
    \/ CleanupThreadDry
    \/ CleanupThreadTrashed
    \/ CleanupThreadTrashError
    \/ CleanupFinish
    \/ CleanerInterrupt

SpecCleanup == InitCleanup /\ [][NextCleanup]_vars

\* end to end: collect(), then the caller selects domains, then cleanup()
Init ==
    /\ config \in PipelineConfigs
    /\ inbox_total = Some(3)
    /\ CollectorIdle
    /\ cconfig = CleanupConfig(TRUE, None)
    /\ cpc = "idle"
    /\ cthreads = <<>>
    /\ CleanerIdle

Next ==
    \/ CollectStart
    \/ WhileInterrupted
    \/ FetchPage
    \/ FetchPageError
    \/ ForEnd
    \/ ProcessThread
    \/ ProcessThreadError
    \/ Build
    \/ Interrupt
    \/ Lookup
    \/ CleanupEmpty
    \/ CleanupStart
    \/ CleanupThreadDry
    \/ CleanupThreadTrashed
    \/ CleanupThreadTrashError
    \/ CleanupFinish
    \/ CleanerInterrupt

Spec == Init /\ [][Next]_vars

\* _is_protected alone: every label set, every protection policy
InitProtected ==
    /\ config \in {CollectionConfig(None, {}, u, p) :
                     u \in BOOLEAN,
                     p \in {NoneSet} \cup {Some(S) : S \in SUBSET {Label_1, Label_2, IMPORTANT}}}
    /\ inbox_total = None
    /\ CollectorIdle
    /\ cconfig = CleanupConfig(TRUE, None)
    /\ cpc = "idle"
    /\ cthreads = <<>>
    /\ CleanerIdle

\* a call of _is_protected on the label set arg
IsProtectedCall ==
    /\ ~ret.done
    /\ \E label_ids \in SUBSET Labels :
          /\ arg' = label_ids
          /\ ret' = Return(_is_protected(label_ids, config))
    /\ UNCHANGED <<collectorVars, remoteVars, requests, events, cleanerVars,
                   scenarioVars, in_flight>>

SpecProtected == InitProtected /\ [][IsProtectedCall]_vars

\* the characters sender strings are made of
SenderChars == {"a", "B", "@", "<", ">", " "}

\* extract_email_address and extract_domain alone: every sender string of up
\* to MaxSenderLen characters
Senders == UNION {[1..n -> SenderChars] : n \in 0..MaxSenderLen}

InitExtract ==
    /\ config = CollectionConfig(None, {}, TRUE, NoneSet)
    /\ inbox_total = None
    /\ CollectorIdle
    /\ cconfig = CleanupConfig(TRUE, None)
    /\ cpc = "idle"
    /\ cthreads = <<>>
    /\ cleaner_interrupted = FALSE
    /\ cpos = 1
    /\ total_processed = 0
    /\ threads_deleted = 0
    /\ messages_deleted = 0
    /\ messages_kept = 0
    /\ stats = _build_stats(0, 0, 0, 0)
    /\ selected = {}
    /\ arg \in Senders
    /\ ret = NoReturn

\* a call of extract_domain on the string arg
ExtractDomainCall ==
    /\ ~ret.done
    /\ ret' = Return([fn |-> "extract_domain", out |-> extract_domain(arg)])
    /\ UNCHANGED <<arg, collectorVars, remoteVars, requests, events, cleanerVars,
                   scenarioVars, in_flight>>

\* _get_thread_metadata lines 188-189 on the From value arg
SenderDomainCall ==
    /\ ~ret.done
    /\ ret' = Return([fn |-> "sender_domain",
                      out |-> extract_domain(extract_email_address(arg))])
    /\ UNCHANGED <<arg, collectorVars, remoteVars, requests, events, cleanerVars,
                   scenarioVars, in_flight>>

NextExtract == ExtractDomainCall \/ SenderDomainCall

SpecExtract == InitExtract /\ [][NextExtract]_vars

\* the tags a conversation or a message may carry in the metadata runs
LevelLabels == {IMPORTANT, Label_1, INBOX}

\* threads().get() answers with one to MaxMessages messages from 'a@X', every
\* tag set at the conversation level and on each message
MetadataInputs ==
    {ThreadData(tl, [i \in 1..Len(ml) |-> Message(TRUE, <<"a", "@", "X">>, ml[i])]) :
        tl \in SUBSET LevelLabels,
        ml \in UNION {[1..n -> SUBSET LevelLabels] : n \in 1..MaxMessages}}

\* the protection policies of the metadata runs
MetadataConfigs ==
    {CollectionConfig(None, {}, TRUE, NoneSet),
     CollectionConfig(None, {}, TRUE, Some({Label_1})),
     CollectionConfig(None, {}, TRUE, Some({Label_2})),
     CollectionConfig(None, {}, FALSE, NoneSet)}

\* _get_thread_metadata and _should_include alone, on one remote answer
InitMetadata ==
    /\ config \in MetadataConfigs
    /\ inbox_total = None
    /\ CollectorIdle
    /\ cconfig = CleanupConfig(TRUE, None)
    /\ cpc = "idle"
    /\ cthreads = <<>>
    /\ cleaner_interrupted = FALSE
    /\ cpos = 1
    /\ total_processed = 0
    /\ threads_deleted = 0
    /\ messages_deleted = 0
    /\ messages_kept = 0
    /\ stats = _build_stats(0, 0, 0, 0)
    /\ selected = {}
    /\ arg \in MetadataInputs
    /\ ret = NoReturn

\* collect() lines 71-77 on the remote answer arg: the metadata and the
\* decision to include
IncludeDecision ==
    /\ ~ret.done
    /\ LET metadata == _get_thread_metadata("t1", arg)
       IN  ret' = Return([metadata |-> metadata,
                          include |-> metadata.ok /\ _should_include(metadata, config)])
    /\ UNCHANGED <<arg, collectorVars, remoteVars, requests, events, cleanerVars,
                   scenarioVars, in_flight>>

SpecMetadata == InitMetadata /\ [][IncludeDecision]_vars

\* collector only, on a remote that may also show a From header without an
\* address: the end-to-end policies
InitScan ==
    /\ config \in PipelineConfigs
    /\ inbox_total = Some(3)
    /\ CollectorNew
    /\ calls_left = 1
    /\ profiles = [id \in Ids |-> ScanThreadDatas]
    /\ chain = None
    /\ first_run = None
    /\ suspended = None
    /\ in_flight = <<>>
    /\ cconfig = CleanupConfig(TRUE, None)
    /\ cpc = "idle"
    /\ cthreads = <<>>
    /\ CleanerIdle

SpecScan == InitScan /\ [][NextCollect]_vars

\* the steps collect() takes by itself once it has been called
CollectStep ==
    \/ WhileInterrupted
    \/ FetchPage
    \/ FetchPageError
    \/ ForEnd
    \/ ProcessThread
    \/ ProcessThreadError
    \/ Build

\* the same runs, with a collect() that is not left suspended for ever: the
\* event loop resumes the coroutine and every awaited request returns or raises
SpecScanFair == SpecScan /\ WF_vars(CollectStep)

\* the answers a list request can get: the ids of the page, and whether a
\* continuation token comes with it
PageAnswers == [ids : Pages, more : BOOLEAN]

\* the number of ids on the first n pages of a chain
RECURSIVE ChainLen(_, _)
ChainLen(c, n) == IF n = 0 THEN 0 ELSE ChainLen(c, n - 1) + Len(c[n].ids)

\* the finite inboxes: up to MaxLists pages with up to MaxListed ids, every
\* page but the last with ids and a token, the last without token or empty
Chains ==
    {c \in UNION {[1..n -> PageAnswers] : n \in 1..MaxLists} :
        /\ ChainLen(c, Len(c)) <= MaxListed
        /\ \A k \in 1..(Len(c) - 1) : c[k].more /\ c[k].ids # <<>>
        /\ \/ ~c[Len(c)].more
           \/ c[Len(c)].ids = <<>> /\ Len(c) < MaxLists}

\* the thread data of the fixed inboxes
TwinThreadDatas == {TDPlain, TDCustom, TDEmpty}

\* the answers of the total query that follow the first one
Totals == {None, Some(0), Some(1)}

\* one collector on a fixed inbox: the caller calls collect(), and calls it
\* again after the answer of the total query has changed
InitTwin ==
    /\ config \in PipelineConfigs
    /\ inbox_total = Some(3)
    /\ CollectorNew
    /\ calls_left = 1
    /\ profiles \in [Ids -> {{td} : td \in TwinThreadDatas}]
    /\ chain \in {Some(c) : c \in Chains}
    /\ first_run = None
    /\ suspended = None
    /\ in_flight = <<>>
    /\ cconfig = CleanupConfig(TRUE, None)
    /\ cpc = "idle"
    /\ cthreads = <<>>
    /\ CleanerIdle

\* after a collect() that was neither interrupted nor failed, the remote's
\* total query comes to answer differently (or to fail) and the caller calls
\* once more; what the first call left is kept for comparison
TotalDrifts ==
    /\ pc = "done"
    /\ calls_left = 0
    /\ first_run.isNone
    /\ ~interrupted
    /\ \A i \in 1..Len(requests) : requests[i].ok
    /\ \E total \in Totals : inbox_total' = total
    /\ first_run' = Some([by_id |-> threads_by_id,
                          by_domain |-> threads_by_domain,
                          result |-> result,
                          requests |-> requests,
                          events |-> events])
    /\ calls_left' = 1
    /\ UNCHANGED <<config, threads_by_id, threads_by_domain, interrupted, pc,
                   domain_data, page_token, next_page_token, total_threads,
                   effective_total, threads, idx, result, mailbox, lists,
                   listed, requests, events, cleanerVars, pureVars, profiles,
                   chain, suspended, in_flight>>

NextTwin == NextCollect \/ TotalDrifts

SpecTwin == InitTwin /\ [][NextTwin]_vars

\* the index after the conversations ids, all of profile thread_data, were stored
RECURSIVE StoredIndex(_, _)
StoredIndex(ids, thread_data) ==
    IF ids = <<>> THEN [by_id |-> EmptyMap, by_domain |-> EmptyMap]
    ELSE LET before == StoredIndex(SubSeq(ids, 1, Len(ids) - 1), thread_data)
         IN  _store_thread(_get_thread_metadata(ids[Len(ids)], thread_data),
                           before.by_id, before.by_domain)

\* the conversations an earlier collect() of the same collector recorded
EarlierScans == {<<"t1">>, <<"t1", "t2">>}

\* a collector whose first collect() has returned with conversations of
\* domain x recorded, about to be called again; the logs start with the
\* second call
InitRecollect ==
    /\ config \in PipelineConfigs
    /\ inbox_total = Some(3)
    /\ \E ids \in EarlierScans :
          LET index == StoredIndex(ids, TDPlain)
              data == (DomX :> [count |-> Len(ids)])
          IN  /\ threads_by_id = index.by_id
              /\ threads_by_domain = index.by_domain
              /\ domain_data = data
              /\ result = _build_results(data, index.by_id, index.by_domain)
              /\ total_threads = Len(ids)
              /\ threads = ids
              /\ idx = Len(ids) + 1
              /\ listed = Len(ids)
    /\ interrupted \in BOOLEAN
    /\ pc = "done"
    /\ page_token = NoToken
    /\ next_page_token = NoToken
    /\ effective_total = 0
    /\ calls_left = 1
    /\ mailbox = EmptyMap
    /\ lists = 1
    /\ requests = <<>>
    /\ events = <<>>
    /\ FreeRemote
    /\ cconfig = CleanupConfig(TRUE, None)
    /\ cpc = "idle"
    /\ cthreads = <<>>
    /\ CleanerIdle

SpecRecollect == InitRecollect /\ [][NextCollect]_vars

(* ------------------------------ claims -------------------------------- *)

\* the elements of a sequence
Range(seq) == {seq[i] : i \in 1..Len(seq)}

\* the combined label set of a conversation: conversation level and first message
CombinedLabels(thread_data) ==
    thread_data.labelIds \cup thread_data.messages[1].labelIds

\* the protection rule of the collection policy, as the specification words it
PolicyProtects(label_ids, cfg) ==
    \/ IMPORTANT \in label_ids
    \/ STARRED \in label_ids
    \/ /\ cfg.use_label_protection
       /\ \E l \in label_ids :
             /\ StartsWith(l, LabelPrefix)
             /\ cfg.protected_label_ids.isNone \/ l \in cfg.protected_label_ids.val

\* the conversations the scan in hand was shown, with at least one message
Scanned == {id \in DOMAIN mailbox : mailbox[id].messages # <<>>}

\* the scanned conversations whose combined label set the policy protects
ScannedProtected ==
    {id \in Scanned : PolicyProtects(CombinedLabels(mailbox[id]), config)}

\* the domain _get_thread_metadata extracts from each thread-data profile
ProfileDomain == [td \in ScanThreadDatas |-> _get_thread_metadata("t1", td).domain]

\* the extracted domain of a scanned conversation (empty when it has none)
ScannedDomain(id) == ProfileDomain[mailbox[id]]

\* the scanned conversations the policy lets through
Eligible ==
    {id \in Scanned \ ScannedProtected :
        ScannedDomain(id) # <<>> /\ ScannedDomain(id) \notin config.excluded_domains}

\* the ids the remote trash mutation was invoked with
Trashed == {requests[i].arg : i \in {j \in 1..Len(requests) : requests[j].op = "trash"}}

\* the number of requests of one kind and outcome
CountRequests(op, ok) ==
    Cardinality({i \in 1..Len(requests) : requests[i].op = op /\ requests[i].ok = ok})

\* the number of events of one name
CountEvents(name) ==
    Cardinality({i \in 1..Len(events) : events[i].event = name})

\* the sum of message_count over the first n thread dicts
RECURSIVE SumMessages(_, _)
SumMessages(seq, n) ==
    IF n = 0 THEN 0 ELSE SumMessages(seq, n - 1) + seq[n].message_count

\* C1: end to end, every id handed to the remote trash mutation is listed in
\* by_domain[d] for a selected domain d and was, when scanned, neither
\* protected nor excluded; no conversation the scan classified as protected is
\* ever trashed, whatever domains are selected.
C1_OnlySelectedUnprotectedTrashed ==
    \A id \in Trashed :
        /\ \E d \in selected :
              d \in DOMAIN threads_by_domain /\ id \in Range(threads_by_domain[d])
        /\ id \in Eligible
        /\ id \notin ScannedProtected

\* a live cleanup trashed a conversation of a selected domain while another
\* conversation of that same domain had been classified protected by the scan
C1_Witness ==
    /\ cpc = "done"
    /\ \E id \in Trashed, p \in ScannedProtected :
          /\ id # p
          /\ ScannedDomain(p) = ScannedDomain(id)
          /\ ScannedDomain(p) \in selected

\* C2: for every label set containing IMPORTANT or STARRED, _is_protected
\* returns true whatever use_label_protection and protected_label_ids are.
C2_ImportantStarredAlwaysProtected ==
    (ret.done /\ (IMPORTANT \in arg \/ STARRED \in arg)) => ret.value = TRUE

\* _is_protected answered for a STARRED label set with label protection
\* switched off and an empty protected_label_ids
C2_Witness ==
    /\ ret.done
    /\ STARRED \in arg
    /\ IMPORTANT \notin arg
    /\ ~config.use_label_protection
    /\ config.protected_label_ids = Some({})

\* C3: after any collect() no conversation whose combined label set the policy
\* protects is in by_id, in a by_domain list or in a DomainAggregate.threads,
\* none contributes to a count, and a domain whose conversations are all
\* protected is absent from the result.
C3_ProtectedNeverIndexed ==
    /\ \A id \in ScannedProtected :
          /\ id \notin DOMAIN threads_by_id
          /\ \A d \in DOMAIN threads_by_domain : id \notin Range(threads_by_domain[d])
    /\ pc = "done" =>
          \A d \in DOMAIN result :
             /\ \A i \in 1..Len(result[d].threads) :
                   result[d].threads[i].thread_id \notin ScannedProtected
             /\ result[d].count =
                   Cardinality({i \in 1..Len(requests) :
                       /\ requests[i].op = "get"
                       /\ requests[i].ok
                       /\ requests[i].arg \in Eligible
                       /\ ScannedDomain(requests[i].arg) = d})
             /\ \E id \in Scanned \ ScannedProtected : ScannedDomain(id) = d

\* collect() returned a non-empty result although a scanned conversation of a
\* domain that is not excluded was protected, and that domain is not a key
C3_Witness ==
    /\ pc = "done"
    /\ DOMAIN result # {}
    /\ \E p \in ScannedProtected :
          /\ ScannedDomain(p) \notin config.excluded_domains
          /\ ScannedDomain(p) \notin DOMAIN result

\* the conversations cleanup() has analyzed so far
Analyzed_n == CountEvents("thread_analyzed")

\* C4: a dry-run cleanup() never invokes the remote trash mutation, and its
\* stats report every processed thread as deleted: threads_deleted is the
\* number of processed threads, messages_deleted the sum of their
\* message_count.
C4_DryRunNeverMutates ==
    cconfig.dry_run =>
        /\ Trashed = {}
        /\ cpc = "done" =>
              /\ stats.threads_deleted = Analyzed_n
              /\ stats.threads_processed = Analyzed_n
              /\ stats.messages_deleted = SumMessages(cthreads, Analyzed_n)

\* a dry run over three threads returned, reporting deletions
C4_Witness ==
    /\ cpc = "done"
    /\ cconfig.dry_run
    /\ Len(cthreads) = 3
    /\ stats.threads_deleted = 3
    /\ stats.messages_deleted >= 4

\* C5: cleanup() honors the limit of its configuration: with limit L set it
\* acts on at most L conversations.
C5_CleanupHonorsLimit ==
    (cpc = "done" /\ ~cconfig.limit.isNone) =>
        /\ stats.threads_processed <= cconfig.limit.val
        /\ Analyzed_n <= cconfig.limit.val

\* C6: the stats cleanup() returns conserve threads and messages:
\* threads_processed = threads_deleted + failed trash calls, and
\* messages_deleted + messages_kept = the message_count sum of the processed
\* threads.
C6_CleanupConservation ==
    cpc = "done" =>
        /\ stats.threads_processed = stats.threads_deleted + CountRequests("trash", FALSE)
        /\ stats.threads_deleted <= stats.threads_processed
        /\ stats.threads_processed = Analyzed_n
        /\ stats.messages_deleted + stats.messages_kept
              = SumMessages(cthreads, Analyzed_n)

\* an interrupted live run returned after one failed and one successful trash
C6_Witness ==
    /\ cpc = "done"
    /\ ~cconfig.dry_run
    /\ cleaner_interrupted
    /\ CountRequests("trash", FALSE) = 1
    /\ CountRequests("trash", TRUE) = 1
    /\ stats.threads_processed < Len(cthreads)
    /\ stats.messages_kept > 0
    /\ stats.messages_deleted > 0

\* a step in which the remote trash mutation fails
TrashFails ==
    /\ Len(requests') = Len(requests) + 1
    /\ requests'[Len(requests')].op = "trash"
    /\ ~requests'[Len(requests')].ok

\* C7: in a live cleanup() a failed trash call never aborts the run: a
\* delete_error event is emitted for that id, messages_kept grows by the
\* thread's message_count, threads_deleted and messages_deleted stay,
\* threads_processed is incremented, and the loop goes on to the next thread;
\* the run ends only when the input is exhausted or the flag is set.
C7_TrashFailureIsLocal ==
    [][ /\ TrashFails =>
            /\ requests'[Len(requests')].arg = cthreads[cpos].thread_id
            /\ events'[Len(events')] =
                   Event("delete_error", [thread_id |-> cthreads[cpos].thread_id])
            /\ Len(events') = Len(events) + 2
            /\ messages_kept' = messages_kept + cthreads[cpos].message_count
            /\ threads_deleted' = threads_deleted
            /\ messages_deleted' = messages_deleted
            /\ total_processed' = total_processed + 1
            /\ cpos' = cpos + 1
            /\ cpc' = "loop"
        /\ (cpc = "loop" /\ cpc' = "done") =>
            /\ cpos > Len(cthreads) \/ cleaner_interrupted
            /\ stats'.threads_processed = total_processed
      ]_vars

\* a live run of three threads whose first trash call failed went on to trash
\* the other two
C7_Witness ==
    /\ cpc = "done"
    /\ ~cconfig.dry_run
    /\ Len(cthreads) = 3
    /\ Len(requests) = 3
    /\ ~requests[1].ok /\ requests[2].ok /\ requests[3].ok
    /\ stats.threads_processed = 3
    /\ stats.threads_deleted = 2
    /\ stats.messages_kept = cthreads[1].message_count
    /\ stats.messages_kept > 0

\* C8: after any collect() no excluded domain is a key of the result or of
\* by_domain, no indexed conversation has an excluded domain, and every
\* fetched conversation the policy lets through is indexed all the same.
C8_ExcludedAbsent ==
    /\ \A d \in config.excluded_domains :
          d \notin DOMAIN threads_by_domain /\ (pc = "done" => d \notin DOMAIN result)
    /\ \A id \in DOMAIN threads_by_id :
          /\ threads_by_id[id].domain \notin config.excluded_domains
          /\ ScannedDomain(id) \notin config.excluded_domains
    /\ \A id \in Eligible :
          /\ id \in DOMAIN threads_by_id
          /\ pc = "done" => ScannedDomain(id) \in DOMAIN result

\* collect() returned with a conversation left out by the exclusion list alone
\* and a conversation of another domain recorded
C8_Witness ==
    /\ pc = "done"
    /\ \E id \in Scanned \ ScannedProtected :
          ScannedDomain(id) \in config.excluded_domains
    /\ DOMAIN result # {}

\* C9: after any collect(), for every domain d of the result,
\* result[d].count = len(result[d].threads) = len(by_domain[d]), and the keys
\* of the result are the domains with a non-empty by_domain list.
C9_AggregateInvariant ==
    pc = "done" =>
        /\ \A d \in DOMAIN result :
              /\ d \in DOMAIN threads_by_domain
              /\ result[d].count = Len(result[d].threads)
              /\ result[d].count = Len(threads_by_domain[d])
        /\ DOMAIN result =
              {d \in DOMAIN threads_by_domain : threads_by_domain[d] # <<>>}

\* collect() returned two domains, one of them with the same id listed twice
C9_Witness ==
    /\ pc = "done"
    /\ Cardinality(DOMAIN result) = 2
    /\ \E d \in DOMAIN result :
          /\ result[d].count = 2
          /\ Cardinality(Range(threads_by_domain[d])) = 1

\* C10: at every suspension point of collect() and after it returns, an id is
\* a key of by_id exactly when it occurs in a by_domain list, and it occurs in
\* the list of the domain by_id stores for it.
C10_IndexConsistent ==
    /\ \A id \in DOMAIN threads_by_id :
          /\ threads_by_id[id].domain \in DOMAIN threads_by_domain
          /\ id \in Range(threads_by_domain[threads_by_id[id].domain])
          /\ threads_by_id[id].thread_id = id
    /\ \A d \in DOMAIN threads_by_domain :
          \A id \in Range(threads_by_domain[d]) : id \in DOMAIN threads_by_id

\* an interrupted collect() returned with one conversation recorded and the
\* rest of its page unvisited
C10_Witness ==
    /\ pc = "done"
    /\ interrupted
    /\ Cardinality(DOMAIN threads_by_id) = 1
    /\ idx = 2
    /\ Len(threads) = 2

\* the (domain, position) places of the by_domain lists
IndexPlaces ==
    {p \in (DOMAIN threads_by_domain) \X (1..MaxListed) :
        p[2] <= Len(threads_by_domain[p[1]])}

\* C11: after collect(), whatever pages and metadata the remote returned,
\* each conversation id occurs at most once over all by_domain lists, neither
\* twice in one list nor in the lists of two domains.
C11_IdListedAtMostOnce ==
    pc = "done" =>
        \A p \in IndexPlaces, q \in IndexPlaces :
            p # q => threads_by_domain[p[1]][p[2]] # threads_by_domain[q[1]][q[2]]

\* the sum of count over the domains of a result
RECURSIVE SumCounts(_, _)
SumCounts(r, doms) ==
    IF doms = {} THEN 0
    ELSE LET d == CHOOSE x \in doms : TRUE
         IN  r[d].count + SumCounts(r, doms \ {d})

\* C13: for every non-null limit L >= 0, after collect() the sum of count over
\* the domains of the result and the number of conversations in by_id are at
\* most L.
C13_CollectRespectsLimit ==
    (pc = "done" /\ ~config.limit.isNone) =>
        /\ SumCounts(result, DOMAIN result) <= config.limit.val
        /\ Cardinality(DOMAIN threads_by_id) <= config.limit.val

\* the list and get requests of the log
ScanRequests ==
    {i \in 1..Len(requests) : requests[i].op \in {"list", "get"}}

\* C14: once the running processed-count of a collect() run has reached a set
\* limit, no further get request and no further list request is made, even
\* when the last page came with a continuation token.
C14_NoRequestPastLimit ==
    [][(pc \in {"while", "for", "build"} /\ ~config.limit.isNone
          /\ total_threads >= config.limit.val)
       => Len(requests') = Len(requests)]_vars

\* the conversations the call in hand has recorded, by its thread_processed events
RecordedNow ==
    {events[i].data.thread_id :
        i \in {j \in 1..Len(events) : events[j].event = "thread_processed"}}

\* C12: by_id and by_domain are emptied at the start of every collect() on
\* the same collector: once a later call has started, the index holds only
\* conversations recorded during that call, and so does the result it returns.
C12_IndexClearedEachCall ==
    calls_left = 0 =>
        /\ DOMAIN threads_by_id = RecordedNow
        /\ UNION {Range(threads_by_domain[d]) : d \in DOMAIN threads_by_domain}
              = RecordedNow
        /\ pc = "done" =>
              UNION {{result[d].threads[i].thread_id :
                         i \in 1..Len(result[d].threads)} : d \in DOMAIN result}
                 = RecordedNow

\* the second collect() returned with t2 recorded and without t1, which the
\* first call had recorded and which the second found protected
C12_Witness ==
    /\ pc = "done"
    /\ calls_left = 0
    /\ DOMAIN threads_by_id = {"t2"}
    /\ "t1" \in ScannedProtected

\* the ids listed under the domains of a result
ResultIds(r) ==
    UNION {{r[d].threads[i].thread_id : i \in 1..Len(r[d].threads)} : d \in DOMAIN r}

\* C15: once the collector's flag is set, collect() starts no list request
\* and no get request and records nothing more; the step during which the
\* flag is set records at most the one conversation whose metadata request it
\* awaited; what was recorded stays in the index and is in the returned result.
C15_CollectInterruptCooperative ==
    [][/\ (interrupted /\ pc \in {"while", "for", "build"}) =>
             /\ ScanRequests' = ScanRequests
             /\ threads_by_id' = threads_by_id
             /\ threads_by_domain' = threads_by_domain
             /\ total_threads' = total_threads
       /\ (~interrupted /\ interrupted' /\ pc \in {"while", "for", "build"}) =>
             /\ total_threads' <= total_threads + 1
             /\ Cardinality(ScanRequests') <= Cardinality(ScanRequests) + 1
             /\ \A id \in DOMAIN threads_by_id :
                   id \in DOMAIN threads_by_id' /\ threads_by_id'[id] = threads_by_id[id]
             /\ \A id \in DOMAIN threads_by_id' \ DOMAIN threads_by_id :
                   /\ requests'[Len(requests')].op = "get"
                   /\ requests'[Len(requests')].arg = id
                   /\ requests'[Len(requests')].ok
       /\ (interrupted' /\ pc' = "done") =>
             DOMAIN threads_by_id' = ResultIds(result')
      ]_vars

\* collect() returned on the flag with a conversation recorded, the rest of
\* its page unvisited and a further page on offer
C15_Witness ==
    /\ pc = "done"
    /\ interrupted
    /\ ~LimitReached(total_threads)
    /\ DOMAIN threads_by_id # {}
    /\ idx <= Len(threads)
    /\ next_page_token # NoToken

\* C16: cleanup() tests its flag before each thread: with the flag set no
\* thread_analyzed event and no trash call is started and nothing more is
\* counted; the thread in hand when the flag is set is completed and counted;
\* the returned stats cover exactly the processed prefix of the input, so a
\* run stopped before its last thread has threads_processed < len(threads).
C16_CleanupInterruptCooperative ==
    [][/\ (cleaner_interrupted /\ cpc = "loop") =>
             /\ requests' = requests
             /\ Len(events') <= Len(events) + 1
             /\ Len(events') = Len(events) + 1 =>
                   events'[Len(events')].event = "cleanup_completed"
             /\ total_processed' = total_processed
             /\ cpos' = cpos
       /\ (~cleaner_interrupted /\ cleaner_interrupted' /\ cpc = "loop"
             /\ events' # events) =>
             /\ total_processed' = total_processed + 1
             /\ cpos' = cpos + 1
             /\ Len(events') = Len(events) + 2
             /\ events'[Len(events) + 1] = Analyzed(cthreads[cpos])
             /\ events'[Len(events')].event \in {"would_delete", "deleted", "delete_error"}
             /\ events'[Len(events')].data.thread_id = cthreads[cpos].thread_id
       /\ (cpc = "loop" /\ cpc' = "done") =>
             /\ stats'.threads_processed = cpos - 1
             /\ stats'.threads_processed = Analyzed_n
             /\ stats'.threads_deleted + CountRequests("trash", FALSE) = cpos - 1
             /\ stats'.messages_deleted + stats'.messages_kept
                   = SumMessages(cthreads, cpos - 1)
             /\ cpos <= Len(cthreads) =>
                   /\ cleaner_interrupted
                   /\ stats'.threads_processed < Len(cthreads)
      ]_vars

\* a live run of three threads returned on the flag after its second thread,
\* with the third neither analyzed nor trashed
C16_Witness ==
    /\ cpc = "done"
    /\ cleaner_interrupted
    /\ ~cconfig.dry_run
    /\ Len(cthreads) = 3
    /\ stats.threads_processed = 2
    /\ Analyzed_n = 2
    /\ Len(requests) = 2

\* the number of events of one name in an event sequence
EventCount(evs, name) ==
    Cardinality({i \in 1..Len(evs) : evs[i].event = name})

\* a list or get request of the log has failed
ScanFailed == \E i \in ScanRequests : ~requests[i].ok

\* a step in which a list or get request fails
ScanRequestFails ==
    /\ Len(requests') = Len(requests) + 1
    /\ requests'[Len(requests')].op \in {"list", "get"}
    /\ ~requests'[Len(requests')].ok

\* C17: a failed list or get request aborts the scan without retry: one error
\* event is emitted, the failing step records nothing, no list or get request
\* follows, and collect() goes on to return with everything recorded before
\* the failure in the index and in the result.
C17_RemoteFailureAborts ==
    [][/\ ScanRequestFails =>
             /\ events' = Append(events, Event("error", EmptyMap))
             /\ EventCount(events', "error") = 1
             /\ threads_by_id' = threads_by_id
             /\ threads_by_domain' = threads_by_domain
             /\ total_threads' = total_threads
             /\ pc' = "build"
       /\ ScanFailed =>
             /\ ScanRequests' = ScanRequests
             /\ EventCount(events', "error") = 1
             /\ threads_by_id' = threads_by_id
             /\ threads_by_domain' = threads_by_domain
             /\ pc = "build" => pc' = "done"
             /\ pc' = "done" =>
                   /\ ResultIds(result') = DOMAIN threads_by_id
                   /\ events'[Len(events')].event = "collection_completed"
      ]_vars

\* collect() returned after the get request of the second conversation of a
\* page failed, with the first conversation recorded and in the result
C17_Witness ==
    /\ pc = "done"
    /\ ScanFailed
    /\ requests[Len(requests)].op = "get"
    /\ requests[Len(requests)].arg = "t2"
    /\ ~requests[Len(requests)].ok
    /\ DOMAIN threads_by_id = {"t1"}
    /\ ResultIds(result) = {"t1"}
    /\ idx = 2
    /\ ~interrupted

\* C18: on every collect() that returns, however it ended, the events start
\* with the one collection_started, end with the one collection_completed,
\* and every thread_processed and error event lies between the two.
C18_CollectEventsBracketed ==
    /\ pc \in {"while", "for", "build", "done"} =>
          /\ events[1].event = "collection_started"
          /\ EventCount(events, "collection_started") = 1
          /\ \A i \in 2..Len(events) :
                events[i].event \in {"thread_processed", "error", "collection_completed"}
    /\ pc \in {"while", "for", "build"} =>
          EventCount(events, "collection_completed") = 0
    /\ pc = "done" =>
          /\ events[Len(events)].event = "collection_completed"
          /\ EventCount(events, "collection_completed") = 1

\* collect() returned after a failed request, with conversations processed
\* before the failure: started, thread_processed, error, completed
C18_Witness ==
    /\ pc = "done"
    /\ EventCount(events, "thread_processed") >= 1
    /\ events[Len(events) - 1].event = "error"
    /\ events[Len(events)].event = "collection_completed"

\* the outcome events a run of the mode in hand may emit
OutcomeNames ==
    IF cconfig.dry_run THEN {"would_delete"} ELSE {"deleted", "delete_error"}

\* C19: for a non-empty input the events of cleanup() are: one
\* cleanup_started first; then for each processed thread, in input order,
\* thread_analyzed followed by one outcome event, would_delete in a dry run
\* and deleted or delete_error in a live run; and one cleanup_completed last,
\* carrying the stats cleanup() returns, also when the run was interrupted.
C19_CleanupEventSequence ==
    (cpc \in {"loop", "done"} /\ cthreads # <<>>) =>
        /\ events[1] = Event("cleanup_started",
                          [dry_run |-> cconfig.dry_run, limit |-> cconfig.limit,
                           threads_to_process |-> Len(cthreads)])
        /\ \A k \in 1..(cpos - 1) :
              /\ events[2 * k] = Analyzed(cthreads[k])
              /\ events[2 * k + 1].event \in OutcomeNames
              /\ events[2 * k + 1].data.thread_id = cthreads[k].thread_id
        /\ cpc = "loop" => Len(events) = 2 * (cpos - 1) + 1
        /\ cpc = "done" =>
              /\ Len(events) = 2 * (cpos - 1) + 2
              /\ events[Len(events)] = Event("cleanup_completed", stats)
              /\ stats.threads_processed = cpos - 1

\* an interrupted live run returned after a failed and a successful trash:
\* started, analyzed, delete_error, analyzed, deleted, completed
C19_Witness ==
    /\ cpc = "done"
    /\ ~cconfig.dry_run
    /\ cleaner_interrupted
    /\ Len(cthreads) = 3
    /\ Len(events) = 6
    /\ events[3].event = "delete_error"
    /\ events[5].event = "deleted"

\* C20: cleanup() called with an empty thread list returns all-zero stats,
\* emits no progress event, neither cleanup_started nor cleanup_completed, and
\* makes no remote call, in dry-run and in live mode.
C20_EmptyCleanupIsSilent ==
    (cpc = "done" /\ cthreads = <<>>) =>
        /\ stats = [threads_processed |-> 0, threads_deleted |-> 0,
                    messages_deleted |-> 0, messages_kept |-> 0]
        /\ events = <<>>
        /\ requests = <<>>

\* a live cleanup() of no threads returned
C20_Witness ==
    /\ cpc = "done"
    /\ cthreads = <<>>
    /\ ~cconfig.dry_run

\* C21: within a live cleanup() the remote trash invocations are exactly the
\* ids of the processed prefix of the input, in input order, one per list
\* entry: a failed trash is never retried and no thread is trashed before the
\* threads ahead of it in the input have been attempted.
C21_TrashCallsFollowInput ==
    (~cconfig.dry_run /\ cpc \in {"loop", "done"} /\ cthreads # <<>>) =>
        /\ Len(requests) = cpos - 1
        /\ Len(requests) = total_processed
        /\ \A k \in 1..Len(requests) :
              /\ requests[k].op = "trash"
              /\ requests[k].arg = cthreads[k].thread_id

\* a live run over three entries, the first and the third of the same id,
\* returned after three trash calls of which the second failed
C21_Witness ==
    /\ cpc = "done"
    /\ ~cconfig.dry_run
    /\ Len(cthreads) = 3
    /\ cthreads[1].thread_id = cthreads[3].thread_id
    /\ cthreads[1].thread_id # cthreads[2].thread_id
    /\ Len(requests) = 3
    /\ requests[1].ok /\ ~requests[2].ok /\ requests[3].ok

\* the reference of the custom-label rule, for label sets without IMPORTANT
\* and STARRED
CustomLabelRule(label_ids, cfg) ==
    LET C == {l \in label_ids :
                 Len(l) >= 6 /\ SubSeq(l, 1, 6) = <<"L","a","b","e","l","_">>}
    IN  CASE ~cfg.use_label_protection -> FALSE
          [] C = {} -> FALSE
          [] ~cfg.protected_label_ids.isNone -> C \cap cfg.protected_label_ids.val # {}
          [] OTHER -> TRUE

\* C22: for every label set with neither IMPORTANT nor STARRED, _is_protected
\* is false when use_label_protection is false; otherwise, with C the tags
\* that start with 'Label_', false when C is empty, whether C meets
\* protected_label_ids when that is not null, and true when it is null.
C22_CustomLabelReference ==
    (ret.done /\ IMPORTANT \notin arg /\ STARRED \notin arg) =>
        ret.value = CustomLabelRule(arg, config)

\* _is_protected answered false for a custom label under an empty
\* protected_label_ids with label protection on
C22_Witness ==
    /\ ret.done
    /\ arg = {INBOX, Label_1}
    /\ config.use_label_protection
    /\ config.protected_label_ids = Some({})
    /\ ret.value = FALSE

\* the text of s after its first c, for s that contains c
AfterFirst(s, c) ==
    LET first == CHOOSE i \in 1..Len(s) :
                     s[i] = c /\ \A j \in 1..(i - 1) : s[j] # c
    IN  SubSeq(s, first + 1, Len(s))

\* C23: the domain computed from a sender string,
\* extract_domain(extract_email_address(e)), contains no uppercase character,
\* and extract_domain of a string without '@' (the empty string included) is
\* the empty string.
C23_DomainLowercaseAndEmptyWithoutAt ==
    ret.done =>
        /\ (ret.value.fn = "sender_domain") =>
               \A i \in 1..Len(ret.value.out) :
                   \A u \in 1..Len(UPPER) : ret.value.out[i] # UPPER[u]
        /\ (ret.value.fn = "extract_domain" /\ \A i \in 1..Len(arg) : arg[i] # "@") =>
               ret.value.out = <<>>

\* the domain of the sender '<@B>' was computed as 'b'
C23_Witness ==
    /\ ret.done
    /\ ret.value.fn = "sender_domain"
    /\ arg = <<"<", "@", "B", ">">>
    /\ ret.value.out = <<"b">>

\* C30: extract_domain(e) is the lowercased text of e after its first '@' for
\* every e with at least one '@', and the result is empty (the conversation
\* is skipped) exactly when that text is empty or e has no '@'.
C30_DomainIsAfterFirstAt ==
    (ret.done /\ ret.value.fn = "extract_domain") =>
        /\ Contains(arg, "@") => ret.value.out = Lower(AfterFirst(arg, "@"))
        /\ (ret.value.out = <<>>) <=>
               (~Contains(arg, "@") \/ AfterFirst(arg, "@") = <<>>)

\* C29: a conversation is protected when a protecting tag is present at the
\* conversation level or on the first message, either alone; tags that occur
\* only on the second or later messages do not influence the decision.
C29_ProtectionReadsTwoLevels ==
    ret.done =>
        (ret.value.include <=>
            ~(PolicyProtects(arg.labelIds, config)
                \/ PolicyProtects(arg.messages[1].labelIds, config)))

\* a conversation whose only protecting tags sit on its second message was
\* included
C29_Witness ==
    /\ ret.done
    /\ Len(arg.messages) = 2
    /\ arg.labelIds = {INBOX}
    /\ arg.messages[1].labelIds = {}
    /\ arg.messages[2].labelIds = {IMPORTANT, Label_1}
    /\ config.use_label_protection
    /\ ret.value.include

\* the ids the get requests of the scan returned data for, in request order
IsAnsweredGet(r) == r.op = "get" /\ r.ok
Fetched == SelectSeq(requests, IsAnsweredGet)

\* the listing entries fetched so far that the policy lets through
EligibleFetched == {i \in 1..Len(Fetched) : Fetched[i].arg \in Eligible}

\* the smaller of two numbers
Min(a, b) == IF a < b THEN a ELSE b

\* C24: in a collect() run with limit L >= 1, no interruption and no remote
\* failure, the number of recorded conversations is min(L, number of eligible
\* conversations listed): skipped, protected and excluded conversations do
\* not consume the limit, and a run that stays below L has fetched every
\* listed conversation.
C24_LimitCountsIncludedOnly ==
    (pc = "done" /\ ~config.limit.isNone /\ config.limit.val >= 1
        /\ ~interrupted /\ ~ScanFailed) =>
        LET L == config.limit.val
            E == Cardinality(EligibleFetched)
        IN  /\ SumCounts(result, DOMAIN result) = Min(L, E)
            /\ E < L => Len(Fetched) = listed
            /\ (\A i, j \in 1..Len(Fetched) : Fetched[i].arg = Fetched[j].arg => i = j)
                   => Cardinality(DOMAIN threads_by_id) = Min(L, E)

\* a run with limit 1 returned one recorded conversation after it had
\* fetched and passed over a conversation the policy does not let through
C24_Witness ==
    /\ pc = "done"
    /\ ~config.limit.isNone /\ config.limit.val = 1
    /\ ~interrupted /\ ~ScanFailed
    /\ Len(Fetched) = 2
    /\ Fetched[1].arg = "t1" /\ Fetched[2].arg = "t2"
    /\ "t1" \notin Eligible
    /\ DOMAIN threads_by_id = {"t2"}
    /\ listed = 3

\* the entries of a sequence of requests whose id is eligible and of domain d
RECURSIVE EligibleOf(_, _)
EligibleOf(seq, d) ==
    IF seq = <<>> THEN <<>>
    ELSE LET id == seq[Len(seq)].arg
             before == EligibleOf(SubSeq(seq, 1, Len(seq) - 1), d)
         IN  IF id \in Eligible /\ ScannedDomain(id) = d
             THEN Append(before, id) ELSE before

\* the domains of the eligible conversations fetched
EligibleDomains == {ScannedDomain(Fetched[i].arg) : i \in EligibleFetched}

Malformed(thread_data) ==
    \/ thread_data.messages = <<>>
    \/ ~thread_data.messages[1].hasFrom
    \/ \A i \in 1..Len(thread_data.messages[1].From) :
           thread_data.messages[1].From[i] # "@"

\* a step in which a get request is answered with malformed thread data
MalformedAnswered ==
    /\ Len(requests') = Len(requests) + 1
    /\ requests'[Len(requests')].op = "get"
    /\ requests'[Len(requests')].ok
    /\ Malformed(mailbox'[requests'[Len(requests')].arg])

\* C26: a conversation with zero messages, without a From header, or whose
\* sender has no '@' is skipped silently: the step records nothing, emits no
\* event, does not count toward the limit, and leaves the scan in the loop at
\* the next conversation of the page.
C26_MalformedSkippedSilently ==
    [][MalformedAnswered =>
          /\ events' = events
          /\ threads_by_id' = threads_by_id
          /\ threads_by_domain' = threads_by_domain
          /\ domain_data' = domain_data
          /\ total_threads' = total_threads
          /\ pc = "for" /\ pc' = "for"
          /\ threads' = threads
          /\ idx' = idx + 1]_vars

\* a run was shown a sender without '@' for t1 and a missing From header for
\* t2, went on to fetch t1 once more, and returned with nothing recorded and
\* no event but its start and its completion
C26_Witness ==
    /\ pc = "done"
    /\ Len(Fetched) = 3
    /\ "t1" \in DOMAIN mailbox /\ mailbox["t1"] = TDNoAt
    /\ "t2" \in DOMAIN mailbox /\ mailbox["t2"] = TDNoFrom
    /\ Fetched[1].arg = "t1" /\ Fetched[2].arg = "t2" /\ Fetched[3].arg = "t1"
    /\ threads_by_id = EmptyMap
    /\ Len(events) = 2
    /\ events[2].event = "collection_completed"

\* the positions of the list requests of the scan in hand
ListsOfScan ==
    {i \in 1..Len(requests) :
        /\ requests[i].op = "list"
        /\ \A j \in i..Len(requests) : requests[j].op # "total"}

\* a step in which a list request is made
ListRequested ==
    /\ Len(requests') = Len(requests) + 1
    /\ requests'[Len(requests')].op = "list"

\* C27: the first list request of a scan carries the null token; every later
\* one carries the token the preceding page returned, which is not null, and
\* that page held identifiers; no token is requested twice; a page without
\* identifiers ends the scan; and a collect() that is called returns.
C27_PaginationProtocol ==
    /\ [][ListRequested =>
             LET token == requests'[Len(requests')].arg
             IN  /\ pc = "while"
                 /\ ListsOfScan = {} => token = NoToken
                 /\ ListsOfScan # {} =>
                        /\ token = next_page_token
                        /\ token # NoToken
                        /\ threads # <<>>
                        /\ \A i \in ListsOfScan : requests[i].ok
                 /\ \A i \in ListsOfScan : requests[i].arg # token
                 /\ (requests'[Len(requests')].ok /\ listed' = listed)
                        => pc' = "build"]_vars
    /\ [](pc = "while" /\ lists > 0 => next_page_token # NoToken)
    /\ (pc = "while") ~> (pc = "done")

\* a scan made two list requests, the second with the token of the first
\* page, and stopped at the second page, which carried no token
C27_Witness ==
    /\ pc = "done"
    /\ Cardinality(ListsOfScan) = 2
    /\ \E i, j \in ListsOfScan :
          /\ i < j
          /\ requests[i].arg = NoToken
          /\ requests[j].arg = 2
    /\ next_page_token = NoToken
    /\ listed = 3
    /\ ~ScanFailed /\ ~interrupted

\* the list and get requests of a request log, in order
IsScanRequest(r) == r.op # "total"
ScanLog(log) == SelectSeq(log, IsScanRequest)

\* the requests made since the first run was set aside
SecondLog == SubSeq(requests, Len(first_run.val.requests) + 1, Len(requests))

\* the events delivered since the first run was set aside
SecondEvents == SubSeq(events, Len(first_run.val.events) + 1, Len(events))

\* two request logs hold the same requests in the same order
SameRequests(a, b) ==
    /\ Len(a) = Len(b)
    /\ \A k \in 1..Len(a) : a[k].op = b[k].op /\ a[k].arg = b[k].arg

\* C28: two collect() runs on the same inbox that differ only in what the
\* total-count query returned (a number, or a failure) record the same
\* conversations, return the same result and make the same list and get
\* requests; a failed total-count query emits no error event and does not
\* abort the scan.
C28_TotalIsDisplayOnly ==
    /\ (~first_run.isNone /\ pc = "done" /\ calls_left = 0 /\ ~interrupted
          /\ \A k \in 1..Len(SecondLog) : SecondLog[k].op = "total" \/ SecondLog[k].ok) =>
          /\ threads_by_id = first_run.val.by_id
          /\ threads_by_domain = first_run.val.by_domain
          /\ result = first_run.val.result
          /\ SameRequests(ScanLog(SecondLog), ScanLog(first_run.val.requests))
          /\ Len(SecondEvents) = Len(first_run.val.events)
          /\ \A k \in 1..Len(SecondEvents) :
                SecondEvents[k].event = first_run.val.events[k].event
    /\ CountEvents("error")
          = Cardinality({i \in 1..Len(requests) :
                           requests[i].op # "total" /\ ~requests[i].ok})

\* a second run whose total query failed returned, after two pages, the two
\* domains the first run had returned with the total answered
C28_Witness ==
    /\ ~first_run.isNone
    /\ pc = "done" /\ calls_left = 0 /\ ~interrupted
    /\ inbox_total.isNone
    /\ Len(SecondLog) = 5
    /\ ~SecondLog[1].ok
    /\ \A k \in 2..5 : SecondLog[k].ok
    /\ lists = 2
    /\ DOMAIN result = {DomX, DomY}
    /\ result = first_run.val.result
    /\ CountEvents("error") = 0

\* the thread_processed events delivered, in order
IsThreadProcessed(e) == e.event = "thread_processed"
ThreadEvents == SelectSeq(events, IsThreadProcessed)

\* the ids of the thread_processed events of domain d, in order
RECURSIVE EventIdsOf(_, _)
EventIdsOf(evs, d) ==
    IF evs = <<>> THEN <<>>
    ELSE LET e == evs[Len(evs)]
             before == EventIdsOf(SubSeq(evs, 1, Len(evs) - 1), d)
         IN  IF e.data.domain = d THEN Append(before, e.data.thread_id) ELSE before

\* C31: collect() emits one thread_processed event per recorded conversation,
\* which is then in both index structures, and none for a conversation that
\* was skipped, protected or excluded; the k-th such event carries
\* processed_threads = k and unique_domains = the number of distinct domains
\* recorded so far; collection_completed carries the number of
\* thread_processed events and the number of keys of the result.
C31_ProgressEventsCountRecorded ==
    pc \in {"while", "for", "build", "done"} =>
        /\ Len(ThreadEvents) = total_threads
        /\ \A k \in 1..Len(ThreadEvents) :
              LET e == ThreadEvents[k].data
              IN  /\ e.processed_threads = k
                  /\ e.unique_domains
                        = Cardinality({ThreadEvents[j].data.domain : j \in 1..k})
                  /\ e.thread_id \in DOMAIN threads_by_id
                  /\ e.domain \in DOMAIN threads_by_domain
                  /\ e.thread_id \in Eligible
                  /\ ScannedDomain(e.thread_id) = e.domain
        /\ {ThreadEvents[k].data.domain : k \in 1..Len(ThreadEvents)}
              = DOMAIN threads_by_domain
        /\ \A d \in DOMAIN threads_by_domain :
              threads_by_domain[d] = EventIdsOf(ThreadEvents, d)
        /\ pc = "done" =>
              /\ events[Len(events)].data.processed_threads = Len(ThreadEvents)
              /\ events[Len(events)].data.unique_domains = Cardinality(DOMAIN result)

\* a run returned after three thread_processed events over two domains, two of
\* them for one id that the listing returned twice
C31_Witness ==
    /\ pc = "done"
    /\ Len(ThreadEvents) = 3
    /\ ThreadEvents[1].data.unique_domains = 1
    /\ ThreadEvents[2].data.unique_domains = 2
    /\ ThreadEvents[3].data.unique_domains = 2
    /\ events[Len(events)].data.processed_threads = 3
    /\ events[Len(events)].data.unique_domains = 2
    /\ Cardinality(DOMAIN threads_by_id) = 2

\* a step in which a remote request is made: the request, or nothing
RequestMade == Len(requests') = Len(requests) + 1
NewRequest == requests'[Len(requests')]

\* a step of cleanup(), from its call to its return
CleanupStepTaken == cpc \in {"called", "loop"} /\ (cpc' # cpc \/ cpos' # cpos)

\* C33: collect() never invokes the remote trash mutation; cleanup() makes no
\* list, get or total-count request, makes trash requests only in live mode,
\* and leaves the collector's by_id and by_domain unchanged.
C33_PhaseFrames ==
    [][/\ (pc \in {"while", "for", "build"} \/ pc' \in {"while", "for", "build"}) =>
              (RequestMade => NewRequest.op \in {"total", "list", "get"})
       /\ (RequestMade /\ NewRequest.op = "trash") =>
              (cpc = "loop" /\ ~cconfig.dry_run /\ pc = "done")
       /\ CleanupStepTaken =>
              /\ threads_by_id' = threads_by_id
              /\ threads_by_domain' = threads_by_domain
              /\ RequestMade => (NewRequest.op = "trash" /\ ~cconfig.dry_run)
       /\ ~RequestMade => requests' = requests]_vars

\* a live cleanup() over two looked-up threads returned: both were trashed by
\* the only trash requests made, and the index of the scan still holds both
C33_Witness ==
    /\ cpc = "done"
    /\ ~cconfig.dry_run
    /\ Len(cthreads) = 2
    /\ threads_deleted = 2
    /\ Cardinality(DOMAIN threads_by_id) = 2
    /\ CountRequests("trash", TRUE) = 2
    /\ \A i \in 1..Len(requests) :
          requests[i].op = "trash" => requests[i].arg \in DOMAIN threads_by_id

\* the pipeline under one collection policy: a scan of at most two threads
\* with every label left unprotected, followed by cleanups of its domains
InitPhases ==
    /\ Init
    /\ config = CollectionConfig(Some(2), {}, FALSE, NoneSet)

SpecPhases == InitPhases /\ [][Next]_vars

\* a collector whose earlier collect() recorded one conversation and whose
\* flag may have been set since, about to be called again or to have the
\* recorded domains cleaned up
InitReuse ==
    /\ InitRecollect
    /\ config = CollectionConfig(Some(1), {DomY}, TRUE, Some({Label_1}))
    /\ threads = <<"t1">>

SpecReuse == InitReuse /\ [][Next]_vars

\* what a collect() called with the flag set leaves behind
InterruptedCallIsEmpty ==
    /\ \A i \in 1..Len(requests) : requests[i].op \notin {"list", "get"}
    /\ threads_by_id = EmptyMap
    /\ threads_by_domain = EmptyMap
    /\ pc = "done" =>
          /\ result = EmptyMap
          /\ Len(events) >= 2
          /\ events[1].event = "collection_started"
          /\ events[2].event = "collection_completed"
          /\ events[2].data.processed_threads = 0
          /\ events[2].data.unique_domains = 0
          /\ \A i \in 1..Len(events) : events[i].event # "thread_processed"

\* C35: neither collect() nor cleanup() clears an interrupted flag; a
\* collect() called with the flag already set makes no list and no get
\* request, leaves by_id and by_domain empty after the reset and returns an
\* empty result between collection_started and collection_completed.
C35_InterruptedStaysSet ==
    /\ [][/\ interrupted => interrupted'
          /\ cleaner_interrupted => cleaner_interrupted']_vars
    /\ [](interrupted /\ calls_left = 1 => [](calls_left = 0 => InterruptedCallIsEmpty))

\* the collector held one conversation and a set flag, was called again and
\* returned: the index is empty, the flag is still set, only the total was asked
C35_Witness ==
    /\ interrupted
    /\ calls_left = 0
    /\ pc = "done"
    /\ result = EmptyMap
    /\ threads_by_id = EmptyMap
    /\ Len(requests) = 1
    /\ requests[1].op = "total"
    /\ Len(events) = 2
    /\ cpc = "idle"

\* the tags that protect a conversation whatever the policy
AlwaysProtecting == {IMPORTANT, STARRED}

\* the mailbox owner tags a recorded conversation between the scan and the
\* cleanup() call: the remote's copy changes, the index of the scan does not
LabelAdded ==
    /\ pc = "done"
    /\ cpc = "idle"
    /\ \E id \in DOMAIN threads_by_id, l \in AlwaysProtecting :
          /\ id \in DOMAIN mailbox
          /\ mailbox[id].messages # <<>>
          /\ AlwaysProtecting \cap CombinedLabels(mailbox[id]) = {}
          /\ mailbox' = [mailbox EXCEPT ![id].messages[1].labelIds = @ \cup {l}]
    /\ UNCHANGED <<collectorVars, inbox_total, lists, listed, requests, events,
                   cleanerVars, pureVars, scenarioVars, in_flight>>

NextTagged == Next \/ LabelAdded

\* the pipeline on a mailbox whose owner may tag conversations after the scan
SpecTagged == InitPhases /\ [][NextTagged]_vars

\* C34: a conversation that carries IMPORTANT or STARRED at the moment a live
\* cleanup() reaches it is not passed to the remote trash mutation, also when
\* the tag was added after the collect() that recorded it.
C34_ProtectedAtCleanupNotTrashed ==
    [][(RequestMade /\ NewRequest.op = "trash") =>
          \/ NewRequest.arg \notin DOMAIN mailbox
          \/ AlwaysProtecting \cap CombinedLabels(mailbox[NewRequest.arg]) = {}]_vars

\* what the second conversation of the two-call inbox may be
OverlapThreadDatas == {TDPlain, TDTwo}

\* one collector on a fixed inbox whose caller calls collect() twice, the
\* second time possibly while the first call is suspended
InitOverlap ==
    /\ config = CollectionConfig(None, {}, TRUE, NoneSet)
    /\ inbox_total = Some(3)
    /\ CollectorNew
    /\ calls_left = 2
    /\ profiles \in {[id \in Ids |-> {IF id = "t1" THEN TDPlain ELSE td}] :
                      td \in OverlapThreadDatas}
    /\ chain \in {Some(c) : c \in Chains}
    /\ first_run = None
    /\ suspended = None
    /\ in_flight = <<>>
    /\ cconfig = CleanupConfig(TRUE, None)
    /\ cpc = "idle"
    /\ cthreads = <<>>
    /\ CleanerIdle

NextOverlap == NextCollect \/ CollectStartOverlapping \/ Resume

SpecOverlap == InitOverlap /\ [][NextOverlap]_vars

\* count equals the number of threads in every domain of a result
CountsMatch(r) == \A d \in DOMAIN r : r[d].count = Len(r[d].threads)

\* every id of by_domain is a key of by_id and conversely
OverlapIndexConsistent ==
    /\ \A d \in DOMAIN threads_by_domain :
          \A i \in 1..Len(threads_by_domain[d]) :
             threads_by_domain[d][i] \in DOMAIN threads_by_id
    /\ \A id \in DOMAIN threads_by_id :
          \E d \in DOMAIN threads_by_domain :
             \E i \in 1..Len(threads_by_domain[d]) : threads_by_domain[d][i] = id

\* C36: when two collect() calls on one collector overlap, the result each
\* call returns has count = len(threads) for every domain, and by_id and
\* by_domain are consistent at every suspension point.
C36_OverlapKeepsResultsAndIndex ==
    /\ OverlapIndexConsistent
    /\ (~suspended.isNone /\ pc = "done") => CountsMatch(result)
    /\ (~suspended.isNone /\ suspended.val.pc = "done") => CountsMatch(suspended.val.result)

\* a request as the remote sees it started
Started(op, target) == [op |-> op, arg |-> target]

\* everything but in_flight
restVars == <<collectorVars, remoteVars, requests, events, cleanerVars, pureVars,
              scenarioVars>>

\* collect() line 41: the INBOX total is asked for and awaited
TotalStart ==
    /\ pc \in {"idle", "done"}
    /\ cpc = "idle"
    /\ calls_left > 0
    /\ in_flight = <<>>
    /\ in_flight' = <<Started("total", "INBOX")>>
    /\ UNCHANGED restVars

\* collect() line 59-61: the flag is clear, the next page is asked for and awaited
ListStart ==
    /\ pc = "while"
    /\ ~interrupted
    /\ lists < MaxLists
    /\ in_flight = <<>>
    /\ in_flight' = <<Started("list", page_token)>>
    /\ UNCHANGED restVars

\* a for loop that asks for every conversation of the page at once
GetStartFanOut ==
    /\ pc = "for"
    /\ idx <= Len(threads)
    /\ ~interrupted
    /\ in_flight = <<>>
    /\ in_flight' = [k \in 1..(Len(threads) - idx + 1) |-> Started("get", threads[idx + k - 1])]
    /\ UNCHANGED restVars

\* collect() line 66-71: the flag is clear, the metadata of the next
\* conversation of the page is asked for and awaited
GetStart ==
    /\ pc = "for"
    /\ idx <= Len(threads)
    /\ ~interrupted
    /\ in_flight = <<>>
    /\ in_flight' = <<Started("get", threads[idx])>>
    /\ UNCHANGED restVars

\* cleanup() line 50-69, live: the trash of the next thread is asked for and awaited
TrashStart ==
    /\ cpc = "loop"
    /\ CleanupContinues
    /\ ~cconfig.dry_run
    /\ in_flight = <<>>
    /\ in_flight' = <<Started("trash", cthreads[cpos].thread_id)>>
    /\ UNCHANGED restVars

\* one collector on a fixed inbox, its requests seen from start to answer
InitFlight ==
    /\ config = CollectionConfig(None, {}, TRUE, NoneSet)
    /\ inbox_total = Some(3)
    /\ CollectorNew
    /\ calls_left = 1
    /\ profiles \in {[id \in Ids |-> {IF id = "t1" THEN TDPlain ELSE td}] :
                      td \in OverlapThreadDatas}
    /\ chain \in {Some(c) : c \in Chains}
    /\ first_run = None
    /\ suspended = None
    /\ in_flight = <<>>
    /\ cconfig = CleanupConfig(TRUE, None)
    /\ cpc = "idle"
    /\ cthreads = <<>>
    /\ CleanerIdle

\* a coroutine that awaits an answer does nothing else until it has it
NextFlight ==
    \/ TotalStart
    \/ ListStart
    \/ GetStart
    \/ TrashStart
    \/ in_flight # <<>> /\ CollectStart
    \/ in_flight # <<>> /\ FetchPage
    \/ in_flight # <<>> /\ FetchPageError
    \/ in_flight # <<>> /\ ProcessThread
    \/ in_flight # <<>> /\ ProcessThreadError
    \/ in_flight # <<>> /\ CleanupThreadTrashed
    \/ in_flight # <<>> /\ CleanupThreadTrashError
    \/ in_flight = <<>> /\ WhileInterrupted
    \/ in_flight = <<>> /\ ForEnd
    \/ in_flight = <<>> /\ Build
    \/ in_flight = <<>> /\ Interrupt
    \/ in_flight = <<>> /\ Lookup
    \/ in_flight = <<>> /\ CleanupEmpty
    \/ in_flight = <<>> /\ CleanupStart
    \/ in_flight = <<>> /\ CleanupThreadDry
    \/ in_flight = <<>> /\ CleanupFinish
    \/ in_flight = <<>> /\ CleanerInterrupt

SpecFlight == InitFlight /\ [][NextFlight]_vars

\* the targets of the requests of one kind, answered or in flight, in the
\* order they were started
RECURSIVE TargetsOf(_, _)
TargetsOf(log, op) ==
    IF log = <<>> THEN <<>>
    ELSE (IF log[1].op = op THEN <<log[1].arg>> ELSE <<>>) \o TargetsOf(Tail(log), op)

StartedLog == [i \in 1..Len(requests) |-> Started(requests[i].op, requests[i].arg)] \o in_flight

\* the ids of the first n pages of a fixed inbox, in listing order
RECURSIVE ChainIds(_, _)
ChainIds(c, n) == IF n = 0 THEN <<>> ELSE ChainIds(c, n - 1) \o c[n].ids

IsPrefix(s, t) == Len(s) <= Len(t) /\ \A i \in 1..Len(s) : s[i] = t[i]

\* C32: within one collect() or cleanup() at most one remote request is in
\* flight; a request is started only after the previous one was answered, and
\* the get and trash requests follow the listing order and the input order.
C32_OneRequestInFlight ==
    /\ Len(in_flight) <= 1
    /\ Len(StartedLog) > 0 => StartedLog[1].op = "total"
    /\ IsPrefix(TargetsOf(StartedLog, "get"), ChainIds(chain.val, Len(chain.val)))
    /\ IsPrefix(TargetsOf(StartedLog, "trash"),
                [i \in 1..Len(cthreads) |-> cthreads[i].thread_id])
    /\ in_flight # <<>> =>
          \/ in_flight[1].op \in {"total", "list", "get"} /\ cpc = "idle"
          \/ in_flight[1].op = "trash" /\ cpc = "loop" /\ pc = "done"

\* a live cleanup() of two threads awaits the trash of the second one after
\* the first was answered, after a scan that awaited two gets one by one
C32_Witness ==
    /\ in_flight # <<>>
    /\ in_flight[1].op = "trash"
    /\ cpos = 2
    /\ Len(TargetsOf(StartedLog, "trash")) = 2
    /\ Len(TargetsOf(StartedLog, "get")) >= 2
    /\ TargetsOf(StartedLog, "get")[1] # TargetsOf(StartedLog, "get")[2]

====
